---- MODULE Spec2Model ----
(***************************************************************************)
(* Model of the photobooth camera control stack.                           *)
(*                                                                         *)
(*   services/camera/src/camera_worker.py     CameraWorker: one worker     *)
(*       thread draining a FIFO queue of CameraOperation, with retry of    *)
(*       transient I/O errors (specification SpecWorker; SpecStop adds     *)
(*       stop() and a later start(), with the threads scheduled fairly).   *)
(*   apps/camera-service/src/camera/manager.py  CameraManager: connection  *)
(*       lifecycle under an asyncio.Lock, device calls dispatched to the   *)
(*       default thread pool (specification SpecManager; SpecLifecycle     *)
(*       is initialize / restart_camera / shutdown alone, with the         *)
(*       history of each connect sequence recorded; SpecOwner is one       *)
(*       coroutine calling them, resumed and answered fairly).             *)
(*   apps/camera-service/src/utils/usb_reset.py  UsbResetHelper: the       *)
(*       deauthorize / reauthorize cycle on the camera's sysfs entry       *)
(*       (specification SpecUsb).                                          *)
(*   apps/camera-service/src/websocket/handler.py  CameraWebSocketHandler: *)
(*       websocket clients, their messages and the preview_stream_loop     *)
(*       tasks, on a CameraManager connected at startup (specification     *)
(*       SpecHandler; SpecConnection adds the peer that closes and the     *)
(*       cancellation of a handler, with each coroutine scheduled fairly). *)
(*   services/camera/src/backends/gphoto2_backend.py  GPhoto2Backend: its  *)
(*       methods called in any order against a camera that may refuse      *)
(*       settings and fail calls (specification SpecBackend; SpecLiveview  *)
(*       records the failed frame reads in a row; SpecFetch is the frame   *)
(*       fetch through CameraWorker and CameraWorkerAdapter while the      *)
(*       backend streams).                                                 *)
(*   services/camera/src/main.py  liveview_stream and the capture          *)
(*       endpoint, both working through CameraWorker on a streaming        *)
(*       backend (specification SpecStream).                               *)
(***************************************************************************)
EXTENDS Integers, Sequences, FiniteSets, TLC

(***************************************************************************)
(* Bounds of the model and program constants.                              *)
(***************************************************************************)
\* number of operations callers submit to the worker
MaxOps == 3
\* CameraOperation.max_retries default
max_retries == 3

\* largest retry number for which the backoff delay is computed on its own
MaxRetryNo == 6
\* CameraWorker._io_error_delay and _max_io_error_delay, in milliseconds
io_error_delay == 100
max_io_error_delay == 1000

\* CameraManager config defaults: max_restart_attempts, max_usb_reset_attempts
max_restart_attempts == 3
max_usb_reset_attempts == 2
\* cap on asyncio tasks created for _auto_recover and not yet started
MaxRecoverTasks == 1

\* entries of /sys/bus/usb/devices the model has
MaxDevs == 2
\* caps on frame_count and capture_count of GPhoto2Backend, and on its
\* _consecutive_errors (which passes _max_consecutive_errors = 10 when the
\* live view is started again after the threshold stopped it)
MaxCount == 2
\* sentinels of stop() that may be in the queue at once
MaxSentinels == 1
MaxErrors == 11

\* coroutines (request handlers, background tasks) calling into CameraManager
Procs == {"p1", "p2", "p3", "p4"}
\* those that call the methods of CameraManager in any order
Callers == {"p1", "p2"}
\* under CameraWebSocketHandler: the handle_connection coroutines, one per
\* websocket, and the preview_stream_loop tasks
Clients == {"p1", "p2"}
LoopTasks == {"p3", "p4"}
\* GPhoto2Camera objects alive at once: self.camera and those still held by
\* calls running in the thread pool
CamIds == 1..Cardinality(Procs)

\* worker threads that start() may create
Threads == {"t1", "t2"}
OpIds == 1..MaxOps
\* what one call of operation.func can do
Outcomes == {"ok", "transient", "terminal"}

VARIABLES
    \* ---- CameraWorker ----
    queue,        \* self._queue: sequence of operation ids
    running,      \* self._running
    wpc,          \* per worker thread: "none" | "get" | "exec" | "sleep" |
                  \* "blocked" (inside queue.get when stop() was called)
    wcur,         \* per worker thread: the operation it holds (0: none)
    submitted,    \* number of operations submitted so far (ids 1..submitted)
    retry_count,  \* operation.retry_count
    future,       \* operation.future: "none" | "pending" | "ok" | "exc"
    execs,        \* number of times operation.func was called
    fails,        \* number of those calls that raised a transient I/O error
    lastOutcome,  \* outcome of the latest call of operation.func ("none" before)
    delay,        \* per operation: the values of "delay" computed for it (ms)
    slept,        \* per operation: the time spent in time.sleep(delay) (ms)
    \* ---- CameraManager ----
    camera,            \* self.camera: a camera id, 0 for None
    lock,              \* self._lock: "free" or the coroutine holding it
    restart_attempts,  \* self._restart_attempts
    usb_reset_count,   \* self._usb_reset_count
    is_initialized,    \* self._is_initialized
    auto_usb_reset,    \* self._auto_usb_reset (config)
    cams,              \* GPhoto2Camera objects: _state, _camera # None, needs_usb_reset
    pc,                \* per coroutine: where it is suspended
    req,               \* per coroutine: the lifecycle call it is making
    call,              \* per coroutine: its call running in the thread pool
    conn,              \* history of the _try_connect_camera call in progress
    ret,               \* per coroutine: what its lifecycle call returned
    allPlain,          \* history: every connect attempt so far failed, none with a timeout
    helperRuns,        \* history: runs of the USB reset helper since the last successful connect
    traced,            \* whether the histories conn, ret, allPlain, helperRuns are recorded
    recoverPending,    \* _auto_recover tasks created and not yet started
    \* ---- CameraWebSocketHandler ----
    connections,   \* self.connections: the websockets, named by their coroutine
    is_streaming,  \* self.is_streaming
    preview_task,  \* self.preview_task: a loop task, "none" for None
    hpc,           \* per coroutine: where it is suspended in the handler
                   \* ("none": no such coroutine, or it has ended)
    cancel_req,    \* loop tasks cancelled and not yet resumed with CancelledError
    was_streaming, \* clients whose handle_capture_photo holds was_streaming = True
    awaiting,      \* per client: the task its stop_preview_stream is awaiting
    alive,         \* websockets whose peer is still connected
    fanout,        \* per loop task: its "for ws in self.connections" iteration
    \* ---- UsbResetHelper ----
    sysfs,              \* /sys/bus/usb/devices: what each entry holds now
    cached_sysfs_path,  \* self._cached_sysfs_path: an entry, 0 for None
    upc,                \* where reset_usb_device is: "idle" | "check" | "deauth" |
                        \* "reauth" | "verify" | "returned"
    sysfs_path,         \* the local sysfs_path of the call (0 before it is set)
    uret,               \* how the latest call ended: "none" | "true" | "false" |
                        \* the class of the exception it raised
    uwrites,            \* history: the values the call wrote to authorized, in order
    uerrs,              \* history: what failed during the call
    ufound,             \* history: the lookup after the settle wait found the camera
    \* ---- GPhoto2Backend, CameraWorkerAdapter ----
    backend,    \* the GPhoto2Backend object: its flags and counters
    bres,       \* the latest call of a backend method and how it ended
    lifecycle,  \* history: the latest initialize() or cleanup() that did something
    func,       \* operation.func of each CameraOperation
    fetch,      \* how the latest call of a get_liveview_frame entry point went
    stream      \* the liveview_stream coroutine: where it is, the operation
                \* it waits for

workerVars == <<queue, running, wpc, wcur, submitted, retry_count, future,
                execs, fails, lastOutcome,
                   delay, slept>>

mgrVars == <<camera, lock, restart_attempts, usb_reset_count, is_initialized,
             auto_usb_reset, cams, pc, req, call, conn, ret, allPlain,
             helperRuns, traced, recoverPending>>

handlerVars == <<connections, is_streaming, preview_task, hpc, cancel_req,
                 was_streaming, awaiting, alive, fanout>>

usbVars == <<sysfs, cached_sysfs_path, upc, sysfs_path, uret, uwrites, uerrs,
             ufound>>

\* the camera service of services/camera: GPhoto2Backend and what
\* CameraWorkerAdapter and CameraWorker know of an operation
serviceVars == <<backend, bres, lifecycle, func, fetch, stream>>

vars == <<workerVars, mgrVars, handlerVars, usbVars, serviceVars>>

(***************************************************************************)
(* CameraWorker                                                            *)
(***************************************************************************)
WorkerInit ==
    /\ queue = <<>>
    /\ running = FALSE
    /\ wpc = [t \in Threads |-> "none"]
    /\ wcur = [t \in Threads |-> 0]
    /\ submitted = 0
    /\ retry_count = [o \in OpIds |-> 0]
    /\ future = [o \in OpIds |-> "none"]
    /\ execs = [o \in OpIds |-> 0]
    /\ fails = [o \in OpIds |-> 0]
    /\ lastOutcome = [o \in OpIds |-> "none"]
    /\ delay = [o \in OpIds |-> <<>>]
    /\ slept = [o \in OpIds |-> 0]

\* start(): "if self._running: return" -- a running worker is not started again
StartAlways == TRUE
CanStart == ~running

\* start(): set _running and create the worker thread
Start(t) ==
    /\ CanStart
    /\ wpc[t] = "none"
    /\ running' = TRUE
    /\ wpc' = [wpc EXCEPT ![t] = "get"]
    /\ UNCHANGED <<queue, wcur, submitted, retry_count, future, execs, fails,
                   lastOutcome,
                   delay, slept>>
    /\ UNCHANGED <<mgrVars, handlerVars, usbVars, serviceVars>>

\* submit(): a new CameraOperation with a fresh Future is put on the queue
SubmitOperation ==
    /\ submitted < MaxOps
    /\ submitted' = submitted + 1
    /\ future' = [future EXCEPT ![submitted + 1] = "pending"]
    /\ queue' = Append(queue, submitted + 1)
    /\ UNCHANGED <<running, wpc, wcur, retry_count, execs, fails, lastOutcome,
                   delay, slept>>

\* submit() of a function that is not looked at further
Submit ==
    /\ SubmitOperation
    /\ UNCHANGED <<mgrVars, handlerVars, usbVars, serviceVars>>

\* _run(): take the next operation off the queue and call its function
WorkerGet(t) ==
    /\ wpc[t] = "get"
    /\ running
    /\ queue # <<>>
    /\ wcur' = [wcur EXCEPT ![t] = Head(queue)]
    /\ queue' = Tail(queue)
    /\ wpc' = [wpc EXCEPT ![t] = "exec"]
    /\ execs' = [execs EXCEPT ![Head(queue)] = @ + 1]
    /\ UNCHANGED <<running, submitted, retry_count, future, fails, lastOutcome,
                   delay, slept>>
    /\ UNCHANGED <<mgrVars, handlerVars, usbVars, serviceVars>>

\* _execute_operation(): "is_io_error and retry_count < max_retries"
ShouldRetryOffByOne(o, outcome) ==
    outcome = "transient" /\ retry_count[o] <= max_retries
ShouldRetryAnyError(o, outcome) ==
    outcome # "ok" /\ retry_count[o] < max_retries
ShouldRetry(o, outcome) ==
    outcome = "transient" /\ retry_count[o] < max_retries

\* 2 ** n
RECURSIVE Pow2(_)
Pow2(n) == IF n = 0 THEN 1 ELSE 2 * Pow2(n - 1)

Min(a, b) == IF a <= b THEN a ELSE b

\* _execute_operation(): "delay = min(self._io_error_delay *
\* (2 ** (operation.retry_count - 1)), self._max_io_error_delay)", k being
\* the retry_count after its increment
BackoffDelayFromTwice(k) == Min(io_error_delay * Pow2(k), max_io_error_delay)
BackoffDelay(k) == Min(io_error_delay * Pow2(k - 1), max_io_error_delay)

\* _execute_operation(): the function returns or raises; the result is set,
\* or the retry is counted and the thread sleeps for the backoff delay
ExecuteOperation(t, outcome) ==
    LET o == wcur[t] IN
    /\ wpc[t] = "exec"
    /\ lastOutcome' = [lastOutcome EXCEPT ![o] = outcome]
    /\ fails' = [fails EXCEPT ![o] = IF outcome = "transient" THEN @ + 1 ELSE @]
    /\ IF outcome = "ok"
         THEN /\ future' = [future EXCEPT ![o] = "ok"]
              /\ wpc' = [wpc EXCEPT ![t] = "get"]
              /\ wcur' = [wcur EXCEPT ![t] = 0]
              /\ UNCHANGED <<retry_count, delay>>
         ELSE IF ShouldRetry(o, outcome)
           THEN /\ retry_count' = [retry_count EXCEPT ![o] = @ + 1]
                /\ delay' = [delay EXCEPT
                                ![o] = Append(@, BackoffDelay(retry_count[o] + 1))]
                /\ wpc' = [wpc EXCEPT ![t] = "sleep"]
                /\ UNCHANGED <<future, wcur>>
           ELSE /\ future' = [future EXCEPT ![o] = "exc"]
                /\ wpc' = [wpc EXCEPT ![t] = "get"]
                /\ wcur' = [wcur EXCEPT ![t] = 0]
                /\ UNCHANGED <<retry_count, delay>>
    /\ UNCHANGED <<queue, running, submitted, execs, slept>>

\* _execute_operation() of a function that is not looked at further: it
\* returns, raises an I/O error or raises another error
WorkerFinish(t, outcome) ==
    /\ wpc[t] = "exec"
    /\ func[wcur[t]] = "other"
    /\ ExecuteOperation(t, outcome)
    /\ UNCHANGED <<mgrVars, handlerVars, usbVars, serviceVars>>

\* _execute_operation(): after time.sleep(delay) the operation is put back on
\* the queue, behind whatever was submitted meanwhile
WorkerRequeue(t) ==
    /\ wpc[t] = "sleep"
    /\ slept' = [slept EXCEPT
                    ![wcur[t]] = @ + delay[wcur[t]][Len(delay[wcur[t]])]]
    /\ queue' = Append(queue, wcur[t])
    /\ wcur' = [wcur EXCEPT ![t] = 0]
    /\ wpc' = [wpc EXCEPT ![t] = "get"]
    /\ UNCHANGED <<running, submitted, retry_count, future, execs, fails,
                   lastOutcome, delay>>
    /\ UNCHANGED <<mgrVars, handlerVars, usbVars, serviceVars>>

\* stop(): "if not self._running: return", then _running = False and the
\* sentinel None (0 here) is put on the queue; a thread that is inside
\* queue.get at that moment has passed its "while self._running" test
Stop ==
    /\ running
    /\ Cardinality({i \in DOMAIN queue : queue[i] = 0}) < MaxSentinels
    /\ running' = FALSE
    /\ queue' = Append(queue, 0)
    /\ wpc' = [t \in Threads |-> IF wpc[t] = "get" THEN "blocked" ELSE wpc[t]]
    /\ UNCHANGED <<wcur, submitted, retry_count, future, execs, fails,
                   lastOutcome,
                   delay, slept>>
    /\ UNCHANGED <<mgrVars, handlerVars, usbVars, serviceVars>>

\* stop(): self._thread.join(timeout=5.0) is over: every thread has exited,
\* or is still in an operation's function when the timeout expires
JoinOver == \A t \in Threads : wpc[t] \in {"none", "exec"}

\* start() on a worker that was never started or whose stop() has returned
StartWorker(t) ==
    /\ JoinOver
    /\ Start(t)

\* _run(): an operation is taken off the queue while _running is true
TakeOperation(t) ==
    /\ queue # <<>>
    /\ Head(queue) # 0
    /\ WorkerGet(t)

\* _run(): the queue.get that was in progress when stop() was called returns
\* an operation that was queued before the sentinel, and it is executed
TakeBlocked(t) ==
    /\ wpc[t] = "blocked"
    /\ queue # <<>>
    /\ Head(queue) # 0
    /\ wcur' = [wcur EXCEPT ![t] = Head(queue)]
    /\ queue' = Tail(queue)
    /\ wpc' = [wpc EXCEPT ![t] = "exec"]
    /\ execs' = [execs EXCEPT ![Head(queue)] = @ + 1]
    /\ UNCHANGED <<running, submitted, retry_count, future, fails, lastOutcome,
                   delay, slept>>
    /\ UNCHANGED <<mgrVars, handlerVars, usbVars, serviceVars>>

\* _run(): "if operation is None: break"
TakeSentinel(t) ==
    /\ wpc[t] = "blocked" \/ (wpc[t] = "get" /\ running)
    /\ queue # <<>>
    /\ Head(queue) = 0
    /\ queue' = Tail(queue)
    /\ wpc' = [wpc EXCEPT ![t] = "none"]
    /\ UNCHANGED <<running, wcur, submitted, retry_count, future, execs, fails,
                   lastOutcome,
                   delay, slept>>
    /\ UNCHANGED <<mgrVars, handlerVars, usbVars, serviceVars>>

\* _run(): "while self._running" is false, at the top of the loop or after
\* queue.Empty: the thread ends
ThreadExit(t) ==
    /\ ~running
    /\ wpc[t] = "get" \/ (wpc[t] = "blocked" /\ queue = <<>>)
    /\ wpc' = [wpc EXCEPT ![t] = "none"]
    /\ UNCHANGED <<queue, running, wcur, submitted, retry_count, future, execs,
                   fails, lastOutcome,
                   delay, slept>>
    /\ UNCHANGED <<mgrVars, handlerVars, usbVars, serviceVars>>

\* the worker with start() and stop() called again and again
StopNext ==
    \/ \E t \in Threads : StartWorker(t)
    \/ Stop
    \/ Submit
    \/ \E t \in Threads : TakeOperation(t)
    \/ \E t \in Threads : TakeBlocked(t)
    \/ \E t \in Threads : TakeSentinel(t)
    \/ \E t \in Threads : ThreadExit(t)
    \/ \E t \in Threads, outcome \in Outcomes : WorkerFinish(t, outcome)
    \/ \E t \in Threads : WorkerRequeue(t)

\* what a worker thread does next, whatever the operation's function gives
ThreadSteps(t) ==
    \/ TakeOperation(t)
    \/ TakeBlocked(t)
    \/ TakeSentinel(t)
    \/ ThreadExit(t)
    \/ \E outcome \in Outcomes : WorkerFinish(t, outcome)
    \/ WorkerRequeue(t)
StopFair == \A t \in Threads : WF_vars(ThreadSteps(t))

WorkerNext ==
    \/ \E t \in Threads : Start(t)
    \/ Submit
    \/ \E t \in Threads : WorkerGet(t)
    \/ \E t \in Threads, outcome \in Outcomes : WorkerFinish(t, outcome)
    \/ \E t \in Threads : WorkerRequeue(t)

(***************************************************************************)
(* GPhoto2Camera objects and calls running in the thread pool              *)
(***************************************************************************)
\* GPhoto2Camera.__init__: _state = IDLE, _camera = None, needs_usb_reset = False
Fresh == [state |-> "idle", handle |-> FALSE, needs |-> FALSE]

NoCall == [kind |-> "none", cam |-> 0, phase |-> "none", res |-> "none",
           dev |-> FALSE, h0 |-> FALSE]
NoReq == [kind |-> "none", force |-> FALSE, auto |-> FALSE]
NoAtt == [out |-> "none", before |-> 0, after |-> 0, reset |-> "none"]
NoConn == [start |-> 0, attempts |-> 0, timeouts |-> 0, resets |-> 0,
           resetsOk |-> 0, lastOut |-> "none", before |-> 0, att |-> NoAtt,
           forced |-> FALSE, budget |-> 0, resetPending |-> FALSE]
NoRet == [kind |-> "none", ok |-> FALSE, start |-> 0, attempts |-> 0,
          timeouts |-> 0, resets |-> 0, resetsOk |-> 0, lastOut |-> "none",
          att |-> NoAtt, forced |-> FALSE, resetPending |-> FALSE,
          connEnd |-> 0, endAttempts |-> 0,
          usbCount |-> 0,
          ready |-> FALSE, state |-> "none", allPlain |-> FALSE]

\* the calls CameraManager dispatches with loop.run_in_executor
DeviceKinds == {"initialize", "disconnect", "get_preview_frame", "stop_preview",
                "capture_photo", "set_config_value", "get_config_value",
                "get_camera_info"}
SimpleKinds == {"set_config_value", "get_config_value", "get_camera_info"}

\* GPhoto2Camera.is_ready()
IsReady(cs, c) == cs[c].state \in {"idle", "previewing"} /\ cs[c].handle

\* CameraManager.is_camera_ready(), on the manager state s
IsCameraReadyIn(s) ==
    /\ s.is_initialized
    /\ s.camera # 0
    /\ IsReady(s.cams, s.camera)

\* a camera object is alive while self.camera or a running call refers to it
Referenced(c, cam, cl) ==
    \/ cam = c
    \/ \E p \in Procs : cl[p].kind # "none" /\ cl[p].cam = c
Norm(cs, cam, cl) ==
    [c \in CamIds |-> IF Referenced(c, cam, cl) THEN cs[c] ELSE Fresh]
\* GPhoto2Camera(): a new object, none of those still in use by a call
NewCamId(cl) ==
    CHOOSE c \in CamIds :
        /\ ~Referenced(c, 0, cl)
        /\ \A d \in CamIds : d < c => Referenced(d, 0, cl)

\* the manager state as one record, so that the code between two awaits is
\* written as a function from the state before to the state after
Cur == [camera |-> camera, lock |-> lock, restart_attempts |-> restart_attempts,
        usb_reset_count |-> usb_reset_count, is_initialized |-> is_initialized,
        cams |-> cams, pc |-> pc, req |-> req, call |-> call, conn |-> conn,
        ret |-> ret, allPlain |-> allPlain, helperRuns |-> helperRuns,
        recoverPending |-> recoverPending,
        connections |-> connections, is_streaming |-> is_streaming,
        preview_task |-> preview_task, hpc |-> hpc, cancel_req |-> cancel_req,
        was_streaming |-> was_streaming, awaiting |-> awaiting, alive |-> alive,
        fanout |-> fanout]

\* a lifecycle method returns to its caller in the step that ends it, so the
\* caller goes on before anything else runs
NoReturnPending == \A p \in Procs : pc[p] # "ret"

\* one block of a coroutine, from one await to the next, ending in state s
Commit(s) ==
    /\ \/ NoReturnPending
       \/ \E p \in Procs : pc[p] = "ret" /\ s.pc[p] = "idle"
    /\ camera' = s.camera
    /\ lock' = s.lock
    /\ restart_attempts' = s.restart_attempts
    /\ usb_reset_count' = s.usb_reset_count
    /\ is_initialized' = s.is_initialized
    /\ cams' = Norm(s.cams, s.camera, s.call)
    /\ pc' = s.pc
    /\ req' = s.req
    /\ call' = s.call
    /\ conn' = IF traced THEN s.conn ELSE NoConn
    /\ ret' = IF traced THEN s.ret ELSE [p \in Procs |-> NoRet]
    /\ allPlain' = IF traced THEN s.allPlain ELSE TRUE
    /\ helperRuns' = IF traced THEN s.helperRuns ELSE 0
    /\ recoverPending' = s.recoverPending
    /\ connections' = s.connections
    /\ is_streaming' = s.is_streaming
    /\ preview_task' = s.preview_task
    /\ hpc' = s.hpc
    /\ cancel_req' = s.cancel_req
    /\ was_streaming' = s.was_streaming
    /\ awaiting' = s.awaiting
    /\ alive' = s.alive
    /\ fanout' = s.fanout
    /\ UNCHANGED <<auto_usb_reset, traced>>
    /\ UNCHANGED <<workerVars, usbVars, serviceVars>>

\* entry checks of the GPhoto2Camera methods that return or raise at once:
\* get_preview_frame and capture_photo while CAPTURING, stop_preview while not
\* PREVIEWING
Immediate(cs, k, c) ==
    \/ k \in {"get_preview_frame", "capture_photo"} /\ cs[c].state = "capturing"
    \/ k = "stop_preview" /\ cs[c].state # "previewing"
ImmediateRes(k) == IF k = "capture_photo" THEN "exc" ELSE "ok"

\* state transition made on entry: get_preview_frame -> PREVIEWING,
\* capture_photo -> CAPTURING
BeginCams(cs, k, c) ==
    IF Immediate(cs, k, c) THEN cs
    ELSE IF k = "get_preview_frame" THEN [cs EXCEPT ![c].state = "previewing"]
    ELSE IF k = "capture_photo" THEN [cs EXCEPT ![c].state = "capturing"]
    ELSE cs

\* loop.run_in_executor(None, f): coroutine p hands the call to a pool thread
SubmitCall(s, p, k, c) ==
    IF k = "usb_reset"
    THEN [s EXCEPT !.call[p] = [kind |-> k, cam |-> 0, phase |-> "run",
                                res |-> "none", dev |-> FALSE, h0 |-> FALSE]]
    ELSE LET imm == Immediate(s.cams, k, c) IN
         [s EXCEPT !.cams = BeginCams(s.cams, k, c),
                   !.call[p] = [kind |-> k, cam |-> c,
                                phase |-> IF imm THEN "done" ELSE "run",
                                res |-> IF imm THEN ImmediateRes(k) ELSE "none",
                                dev |-> ~imm,
                                h0 |-> /\ k \in {"get_preview_frame", "capture_photo"}
                                       /\ s.cams[c].handle]]

Running(p, k) == call[p].kind = k /\ call[p].phase = "run"
Finished(p, k) == call[p].kind = k /\ call[p].phase = "done"

\* the pool thread's call returns or raises; res is what the coroutine will see
EndCall(p, res, cs) ==
    /\ NoReturnPending
    /\ call' = [call EXCEPT ![p].phase = "done", ![p].res = res]
    /\ cams' = cs
    /\ UNCHANGED <<camera, lock, restart_attempts, usb_reset_count,
                   is_initialized, auto_usb_reset, pc, req, conn, ret, allPlain,
                   helperRuns, traced, recoverPending>>
    /\ UNCHANGED <<workerVars, handlerVars, usbVars, serviceVars>>

\* BaseCamera.initialize / GPhoto2Camera._specific_initialization
InitializeEnds(p, out, h) ==
    LET c == call[p].cam IN
    /\ Running(p, "initialize")
    /\ out \in {"ok", "plain", "timeout"}
    /\ CASE out = "ok" ->
              EndCall(p, "ok", [cams EXCEPT ![c].state = "idle", ![c].handle = TRUE])
         [] out = "plain" ->
              EndCall(p, "exc", [cams EXCEPT ![c].state = "error", ![c].handle = h])
         [] out = "timeout" ->
              EndCall(p, "exc", [cams EXCEPT ![c].state = "error", ![c].handle = h,
                                             ![c].needs = TRUE])

\* GPhoto2Camera.disconnect
DisconnectEnds(p) ==
    LET c == call[p].cam IN
    /\ Running(p, "disconnect")
    /\ EndCall(p, "ok", IF cams[c].handle
                        THEN [cams EXCEPT ![c].handle = FALSE, ![c].state = "idle"]
                        ELSE cams)

\* GPhoto2Camera.get_preview_frame
PreviewEnds(p, out) ==
    LET c == call[p].cam IN
    /\ Running(p, "get_preview_frame")
    /\ out \in {"ok", "fail", "timeout", "exc"}
    /\ out = "ok" => cams[c].handle \/ call[p].h0
    /\ CASE out = "ok" -> EndCall(p, "ok", cams)
         [] out = "fail" -> EndCall(p, "exc", [cams EXCEPT ![c].state = "error"])
         [] out = "timeout" ->
              EndCall(p, "exc", [cams EXCEPT ![c].state = "error", ![c].needs = TRUE])
         [] out = "exc" -> EndCall(p, "exc", cams)

\* GPhoto2Camera.capture_photo
CaptureEnds(p, out) ==
    LET c == call[p].cam IN
    /\ Running(p, "capture_photo")
    /\ out \in {"ok", "fail", "timeout"}
    /\ out = "ok" => cams[c].handle \/ call[p].h0
    /\ CASE out = "ok" -> EndCall(p, "ok", [cams EXCEPT ![c].state = "idle"])
         [] out = "fail" -> EndCall(p, "exc", [cams EXCEPT ![c].state = "error"])
         [] out = "timeout" ->
              EndCall(p, "exc", [cams EXCEPT ![c].state = "error", ![c].needs = TRUE])

\* GPhoto2Camera.stop_preview
StopPreviewEnds(p) ==
    LET c == call[p].cam IN
    /\ Running(p, "stop_preview")
    /\ EndCall(p, "ok", [cams EXCEPT ![c].state = "idle"])

\* set_config_value never raises; get_config_value raises ValueError on a
\* gPhoto2 error; get_camera_info returns a dict
SimpleEnds(p, out) ==
    /\ call[p].kind \in SimpleKinds /\ call[p].phase = "run"
    /\ out \in {"ok", "exc"}
    /\ out = "exc" => call[p].kind = "get_config_value"
    /\ EndCall(p, out, cams)

\* UsbResetHelper.reset_usb_device returns True or False
UsbResetEnds(p, ok) ==
    /\ Running(p, "usb_reset")
    /\ EndCall(p, IF ok THEN "ok" ELSE "exc", cams)

(***************************************************************************)
(* CameraManager: connect / restart / shutdown sequences                   *)
(***************************************************************************)
\* asyncio.Lock: "async with self._lock" goes on only when nobody holds it
LockIgnored == TRUE
LockFree == lock = "free"

\* _try_usb_reset(): the helper is run only when auto reset is enabled and
\* the reset budget is not used up
ResetAllowedNoBudget(s) == auto_usb_reset
ResetAllowedNoAuto(s) == s.usb_reset_count < max_usb_reset_attempts
ResetAllowed(s) ==
    auto_usb_reset /\ s.usb_reset_count < max_usb_reset_attempts

\* _try_usb_reset(): count the reset and run the helper in the thread pool
SubmitUsbReset(s, p, at) ==
    SubmitCall([s EXCEPT !.usb_reset_count = @ + 1, !.pc[p] = at,
                         !.conn.budget = s.usb_reset_count,
                         !.conn.resetPending = TRUE,
                         !.helperRuns = @ + 1], p,
               "usb_reset", 0)

\* the lifecycle call of p returns (ok) or raises / returns False (~ok);
\* leaving "async with" releases the lock
SeqEnd(s, p, ok) ==
    LET k == s.req[p].kind
        s1 == IF ok /\ k \in {"initialize", "restart"}
              THEN [s EXCEPT !.is_initialized = TRUE,
                             !.restart_attempts =
                                 IF k = "initialize" THEN 0 ELSE @]
              ELSE s
    IN [s1 EXCEPT
          !.lock = "free",
          !.pc[p] = "ret",
          !.req[p] = NoReq,
          !.conn = NoConn,
          !.ret[p] = [kind |-> k, ok |-> ok, start |-> s.conn.start,
                      attempts |-> s.conn.attempts,
                      timeouts |-> s.conn.timeouts,
                      resets |-> s.conn.resets,
                      resetsOk |-> s.conn.resetsOk,
                      lastOut |-> s.conn.lastOut,
                      att |-> s.conn.att,
                      forced |-> s.conn.forced,
                      resetPending |-> s.conn.resetPending,
                      connEnd |-> s.restart_attempts,
                      endAttempts |-> s1.restart_attempts,
                      usbCount |-> s1.usb_reset_count,
                      ready |-> IsCameraReadyIn(s1),
                      state |-> IF s1.camera = 0 THEN "none"
                                ELSE s1.cams[s1.camera].state,
                      allPlain |-> s1.allPlain]]

\* _try_connect_camera(): the while test, then a new GPhoto2Camera whose
\* initialize runs in the thread pool; when the test fails the method returns
TryConnectEntry(s, p) ==
    IF s.restart_attempts < max_restart_attempts
    THEN LET c == NewCamId(s.call) IN
         SubmitCall([s EXCEPT !.camera = c,
                              !.cams[c] = Fresh,
                              !.pc[p] = "c_init",
                              !.conn.before = s.restart_attempts,
                              !.conn.resetPending = FALSE],
                    p, "initialize", c)
    ELSE SeqEnd(s, p, TRUE)

\* entry of _try_connect_camera()
StartConnect(s, p) ==
    TryConnectEntry([s EXCEPT !.conn = [NoConn EXCEPT
                                           !.start = s.restart_attempts,
                                           !.forced = s.conn.forced,
                                           !.resetPending =
                                               s.conn.resetPending]], p)

\* history: how the failed attempt was charged
RecordAttempt(s, reset) ==
    [s EXCEPT !.conn.att = [out |-> s.conn.lastOut, before |-> s.conn.before,
                            after |-> s.restart_attempts, reset |-> reset]]

\* _try_connect_camera(): after a failed attempt, wait restart_delay and go
\* round again, or raise when the attempts are used up
AfterFail(s, p) ==
    IF s.restart_attempts < max_restart_attempts
    THEN [s EXCEPT !.pc[p] = "c_delay"]
    ELSE SeqEnd(s, p, FALSE)

\* _try_connect_camera(): restart_attempts after a successful USB reset
UnchargeNever(a) == a
Uncharge(a) == IF a - 1 > 0 THEN a - 1 ELSE 0

\* _try_connect_camera(): camera.initialize returned or raised
AfterInitialize(s, p) ==
    LET c == s.camera
        s0 == [s EXCEPT !.call[p] = NoCall, !.conn.attempts = @ + 1]
    IN IF s.call[p].res = "ok"
       THEN SeqEnd([s0 EXCEPT !.usb_reset_count = 0,
                              !.helperRuns = 0,
                              !.conn.lastOut = "ok",
                              !.conn.att = NoAtt,
                              !.allPlain = FALSE], p, TRUE)
       ELSE LET s1 == [s0 EXCEPT !.restart_attempts = @ + 1] IN
            IF c # 0 /\ s1.cams[c].needs
            THEN LET s2 == [s1 EXCEPT !.cams[c].needs = FALSE,
                                      !.conn.timeouts = @ + 1,
                                      !.conn.lastOut = "timeout",
                                      !.allPlain = FALSE]
                 IN IF ResetAllowed(s2)
                    THEN SubmitUsbReset([s2 EXCEPT !.conn.resets = @ + 1],
                                        p, "c_reset")
                    ELSE AfterFail(RecordAttempt(s2,
                             IF auto_usb_reset THEN "exhausted" ELSE "disabled"), p)
            ELSE AfterFail(RecordAttempt([s1 EXCEPT !.conn.lastOut = "plain"],
                                         "none"), p)

\* _try_connect_camera(): "if usb_reset_ok:"
usb_reset_assumed(res) == TRUE
usb_reset_ok(res) == res = "ok"

\* _try_connect_camera(): _try_usb_reset() returned
AfterConnectReset(s, p) ==
    LET how == IF s.call[p].res = "ok" THEN "ok" ELSE "failed"
        s0 == [s EXCEPT !.call[p] = NoCall,
                        !.conn.resetsOk = IF how = "ok" THEN @ + 1 ELSE @]
    IN IF usb_reset_ok(s.call[p].res)
       THEN RecordAttempt([s0 EXCEPT !.restart_attempts = Uncharge(@),
                                     !.pc[p] = "c_settle"], how)
       ELSE AfterFail(RecordAttempt(s0, how), p)

\* restart_camera(): reset the attempts and reconnect
RestartConnect(s, p) ==
    StartConnect([s EXCEPT !.restart_attempts = 0, !.is_initialized = FALSE], p)

\* restart_camera(): after the disconnect, the forced USB reset if asked for
RestartAfterDisconnect(s, p) ==
    LET s0 == [s EXCEPT !.req[p].force = FALSE] IN
    IF s.req[p].force /\ ResetAllowed(s)
    THEN SubmitUsbReset([s0 EXCEPT !.conn.forced = TRUE], p, "r_reset")
    ELSE RestartConnect(s0, p)

\* shutdown(): the end
ShutdownEnd(s, p) ==
    SeqEnd([s EXCEPT !.camera = 0, !.is_initialized = FALSE], p, TRUE)

\* initialize() / restart_camera() / shutdown() up to the first await, the
\* lock just taken
SeqBegin(s, p, rq) ==
    LET s0 == [s EXCEPT !.lock = p, !.req[p] = rq, !.ret[p] = NoRet,
                        !.conn = NoConn]
    IN CASE rq.kind = "initialize" ->
              IF s0.is_initialized
              THEN SeqEnd([s0 EXCEPT !.req[p].kind = "initialized"], p, TRUE)
              ELSE StartConnect(s0, p)
         [] rq.kind = "restart" ->
              IF s0.camera # 0
              THEN SubmitCall([s0 EXCEPT !.pc[p] = "r_disc"], p, "disconnect",
                              s0.camera)
              ELSE RestartAfterDisconnect(s0, p)
         [] rq.kind = "shutdown" ->
              IF s0.camera # 0
              THEN SubmitCall([s0 EXCEPT !.pc[p] = "s_disc"], p, "disconnect",
                              s0.camera)
              ELSE ShutdownEnd(s0, p)

\* a coroutine calls a lifecycle method: it goes on if the lock is free and
\* waits for it otherwise
CallSeq(s, p, rq) ==
    IF LockFree
    THEN Commit(SeqBegin(s, p, rq))
    ELSE Commit([s EXCEPT !.pc[p] = "wait", !.req[p] = rq, !.ret[p] = NoRet])

\* CameraManager.initialize()
Initialize(p) ==
    /\ pc[p] = "idle"
    /\ CallSeq(Cur, p, [kind |-> "initialize", force |-> FALSE, auto |-> FALSE])

\* CameraManager.restart_camera(force_usb_reset)
RestartCamera(p, force) ==
    /\ pc[p] = "idle"
    /\ CallSeq(Cur, p, [kind |-> "restart", force |-> force, auto |-> FALSE])

\* CameraManager._auto_recover(): the task created by a failed preview or
\* capture starts running
AutoRecover(p) ==
    /\ pc[p] = "idle"
    /\ recoverPending > 0
    /\ CallSeq([Cur EXCEPT !.recoverPending = @ - 1], p,
               [kind |-> "restart", force |-> TRUE, auto |-> TRUE])

\* CameraManager.shutdown()
Shutdown(p) ==
    /\ pc[p] = "idle"
    /\ CallSeq(Cur, p, [kind |-> "shutdown", force |-> FALSE, auto |-> FALSE])

\* a coroutine waiting for the lock gets it
LockAcquired(p) ==
    /\ pc[p] = "wait"
    /\ LockFree
    /\ Commit(SeqBegin(Cur, p, req[p]))

\* _try_connect_camera(): resumes after camera.initialize
InitializeDone(p) ==
    /\ pc[p] = "c_init"
    /\ Finished(p, "initialize")
    /\ Commit(AfterInitialize(Cur, p))

\* _try_connect_camera(): resumes after _try_usb_reset
ConnectResetDone(p) ==
    /\ pc[p] = "c_reset"
    /\ Finished(p, "usb_reset")
    /\ Commit(AfterConnectReset(Cur, p))

\* _try_connect_camera(): asyncio.sleep(2) or asyncio.sleep(restart_delay) is over
SleepDone(p) ==
    /\ pc[p] \in {"c_settle", "c_delay"}
    /\ Commit(TryConnectEntry(Cur, p))

\* restart_camera(): resumes after camera.disconnect; "finally: self.camera = None"
RestartDisconnectDone(p) ==
    /\ pc[p] = "r_disc"
    /\ Finished(p, "disconnect")
    /\ Commit(RestartAfterDisconnect(
                  [Cur EXCEPT !.call[p] = NoCall, !.camera = 0], p))

\* restart_camera(): resumes after the forced _try_usb_reset
RestartResetDone(p) ==
    /\ pc[p] = "r_reset"
    /\ Finished(p, "usb_reset")
    /\ Commit(RestartConnect([Cur EXCEPT !.call[p] = NoCall], p))

\* shutdown(): resumes after camera.disconnect
ShutdownDisconnectDone(p) ==
    /\ pc[p] = "s_disc"
    /\ Finished(p, "disconnect")
    /\ Commit(ShutdownEnd([Cur EXCEPT !.call[p] = NoCall], p))

\* the caller of a lifecycle method goes on with something else
Return(p) ==
    /\ pc[p] = "ret"
    /\ Commit([Cur EXCEPT !.pc[p] = "idle", !.ret[p] = NoRet])

(***************************************************************************)
(* CameraManager: operations on the connected camera                       *)
(***************************************************************************)
IsCameraReady == IsCameraReadyIn(Cur)

\* asyncio.create_task(self._auto_recover()) when the camera object the
\* manager holds now has needs_usb_reset set
SpawnsRecover(s) == s.camera # 0 /\ s.cams[s.camera].needs

\* the call of coroutine p is over and p is out of the manager's method; when
\* the call raised and the camera wants a USB reset, an _auto_recover task
CallOver(s, p) == [s EXCEPT !.call[p] = NoCall, !.pc[p] = "idle"]
Spawns(s, p) == s.call[p].res = "exc" /\ SpawnsRecover(CallOver(s, p))
CanSpawn(s, p) == Spawns(s, p) => s.recoverPending < MaxRecoverTasks
WithRecover(s, p, s1) ==
    IF Spawns(s, p) THEN [s1 EXCEPT !.recoverPending = @ + 1] ELSE s1

\* get_preview_frame() past its ready check: camera.get_preview_frame goes to
\* the pool
PreviewCall(s, p) ==
    SubmitCall([s EXCEPT !.pc[p] = "pv_wait"], p, "get_preview_frame", s.camera)
\* get_preview_frame() returns the frame, or on an exception a black frame,
\* possibly creating an _auto_recover task
PreviewReturn(s, p) == WithRecover(s, p, CallOver(s, p))

\* get_preview_frame(): ready check, then camera.get_preview_frame in the pool
GetPreviewFrame(p) ==
    /\ pc[p] = "idle"
    /\ IsCameraReady
    /\ Commit(PreviewCall(Cur, p))

\* get_preview_frame(): the frame, or on an exception a black frame and
\* possibly an _auto_recover task
GetPreviewFrameDone(p) ==
    /\ pc[p] = "pv_wait"
    /\ Finished(p, "get_preview_frame")
    /\ CanSpawn(Cur, p)
    /\ Commit(PreviewReturn(Cur, p))

\* stop_preview(): ready check, then camera.stop_preview in the pool
StopPreview(p) ==
    /\ pc[p] = "idle"
    /\ IsCameraReady
    /\ Commit(SubmitCall([Cur EXCEPT !.pc[p] = "sp_wait"], p,
                         "stop_preview", camera))

StopPreviewDone(p) ==
    /\ pc[p] = "sp_wait"
    /\ Finished(p, "stop_preview")
    /\ Commit([Cur EXCEPT !.call[p] = NoCall, !.pc[p] = "idle"])

\* capture_photo() past its ready check: "await self.stop_preview()"
CaptureCall(s, p) ==
    SubmitCall([s EXCEPT !.pc[p] = "cap_sp"], p, "stop_preview", s.camera)
\* capture_photo(): stop_preview is back; self.camera.capture_photo goes to
\* the pool (self.camera read now; None raises AttributeError, handled like
\* any exception of the method)
CaptureStopRaises(s) == s.camera = 0
CaptureStopReturn(s, p) ==
    LET s0 == [s EXCEPT !.call[p] = NoCall] IN
    IF CaptureStopRaises(s)
    THEN [s0 EXCEPT !.is_initialized = FALSE, !.pc[p] = "idle"]
    ELSE SubmitCall([s0 EXCEPT !.pc[p] = "cap_wait"], p, "capture_photo",
                    s.camera)
\* capture_photo() returns the image, or on an exception possibly creates an
\* _auto_recover task, sets "_is_initialized = False" and raises
CaptureRaises(s, p) == s.call[p].res = "exc"
CaptureReturn(s, p) ==
    LET s0 == CallOver(s, p)
        s1 == IF CaptureRaises(s, p) THEN [s0 EXCEPT !.is_initialized = FALSE]
              ELSE s0
    IN WithRecover(s, p, s1)

\* capture_photo(): ready check, then "await self.stop_preview()"
CapturePhoto(p) ==
    /\ pc[p] = "idle"
    /\ IsCameraReady
    /\ Commit(CaptureCall(Cur, p))

\* capture_photo(): stop_preview is back, camera.capture_photo goes to the pool
CaptureStopDone(p) ==
    /\ pc[p] = "cap_sp"
    /\ Finished(p, "stop_preview")
    /\ Commit(CaptureStopReturn(Cur, p))

\* capture_photo(): the image or the exception
CapturePhotoDone(p) ==
    /\ pc[p] = "cap_wait"
    /\ Finished(p, "capture_photo")
    /\ CanSpawn(Cur, p)
    /\ Commit(CaptureReturn(Cur, p))

\* set_setting() / get_setting() / get_camera_info(): ready check, then the
\* camera method in the pool
SimpleCallCall(s, p, k) ==
    SubmitCall([s EXCEPT !.pc[p] = "cfg_wait"], p, k, s.camera)
SimpleCall(p, k) ==
    /\ pc[p] = "idle"
    /\ k \in SimpleKinds
    /\ IsCameraReady
    /\ Commit(SimpleCallCall(Cur, p, k))

SimpleCallDone(p) ==
    /\ pc[p] = "cfg_wait"
    /\ call[p].kind \in SimpleKinds /\ call[p].phase = "done"
    /\ Commit(CallOver(Cur, p))

MgrInit ==
    /\ camera = 0
    /\ lock = "free"
    /\ restart_attempts = 0
    /\ usb_reset_count = 0
    /\ is_initialized = FALSE
    /\ auto_usb_reset \in BOOLEAN
    /\ cams = [c \in CamIds |-> Fresh]
    /\ pc = [p \in Procs |-> "idle"]
    /\ req = [p \in Procs |-> NoReq]
    /\ call = [p \in Procs |-> NoCall]
    /\ conn = NoConn
    /\ ret = [p \in Procs |-> NoRet]
    /\ allPlain = TRUE
    /\ helperRuns = 0
    /\ traced \in BOOLEAN
    /\ recoverPending = 0

\* CameraWebSocketHandler.__init__; no websocket yet
NoFanout == [size |-> 0, todo |-> {}, cur |-> "none", failed |-> {}]
HandlerInit ==
    /\ connections = {}
    /\ is_streaming = FALSE
    /\ preview_task = "none"
    /\ hpc = [p \in Procs |-> "none"]
    /\ cancel_req = {}
    /\ was_streaming = {}
    /\ awaiting = [p \in Clients |-> "none"]
    /\ alive = {}
    /\ fanout = [t \in LoopTasks |-> NoFanout]

\* initialize(), restart_camera() and shutdown(), with the calls they run in
\* the thread pool
LifecycleStep ==
    \/ \E p \in Callers : Initialize(p)
    \/ \E p \in Callers, force \in BOOLEAN : RestartCamera(p, force)
    \/ \E p \in Callers : Shutdown(p)
    \/ \E p \in Callers : LockAcquired(p)
    \/ \E p \in Callers : InitializeDone(p)
    \/ \E p \in Callers : ConnectResetDone(p)
    \/ \E p \in Callers : SleepDone(p)
    \/ \E p \in Callers : RestartDisconnectDone(p)
    \/ \E p \in Callers : RestartResetDone(p)
    \/ \E p \in Callers : ShutdownDisconnectDone(p)
    \/ \E p \in Callers, out \in {"ok", "plain", "timeout"}, h \in BOOLEAN :
           InitializeEnds(p, out, h)
    \/ \E p \in Callers : DisconnectEnds(p)
    \/ \E p \in Callers, ok \in BOOLEAN : UsbResetEnds(p, ok)

\* the operations on the connected camera, and the recovery they ask for
OperationStep ==
    \/ \E p \in Callers : AutoRecover(p)
    \/ \E p \in Callers : GetPreviewFrame(p)
    \/ \E p \in Callers : GetPreviewFrameDone(p)
    \/ \E p \in Callers : StopPreview(p)
    \/ \E p \in Callers : StopPreviewDone(p)
    \/ \E p \in Callers : CapturePhoto(p)
    \/ \E p \in Callers : CaptureStopDone(p)
    \/ \E p \in Callers : CapturePhotoDone(p)
    \/ \E p \in Callers, k \in SimpleKinds : SimpleCall(p, k)
    \/ \E p \in Callers : SimpleCallDone(p)
    \/ \E p \in Callers, out \in {"ok", "fail", "timeout", "exc"} :
           PreviewEnds(p, out)
    \/ \E p \in Callers, out \in {"ok", "fail", "timeout"} : CaptureEnds(p, out)
    \/ \E p \in Callers : StopPreviewEnds(p)
    \/ \E p \in Callers, out \in {"ok", "exc"} : SimpleEnds(p, out)

LifecycleNext ==
    \/ LifecycleStep
    \/ \E p \in Callers : Return(p)

MgrNext ==
    \/ LifecycleStep
    \/ OperationStep
    \/ \E p \in Callers : Return(p)

(***************************************************************************)
(* UsbResetHelper                                                          *)
(***************************************************************************)
Devs == 1..MaxDevs

\* one entry of /sys/bus/usb/devices: whether the directory is there, what
\* reading its idVendor gives ("cam": self.vendor_id, "other": another id,
\* "err": IOError / OSError), whether its authorized file exists
Entries == [present : BOOLEAN, vendor : {"cam", "other", "err"}, auth : BOOLEAN]
NoEntry == [present |-> FALSE, vendor |-> "other", auth |-> FALSE]

\* os.path.exists(os.path.join(path, "authorized"))
AuthorizedExists(fs, d) == fs[d].present /\ fs[d].auth

\* find_camera_sysfs_path: the entries it can return; an entry whose idVendor
\* cannot be read is skipped; no entry: FileNotFoundError
FindCamera(fs) ==
    {d \in Devs : fs[d].present /\ fs[d].vendor = "cam" /\ fs[d].auth}

\* PermissionError and FileNotFoundError are subclasses of OSError (IOError)
IsInstance(exc, cls) == exc = cls \/ cls = "OSError"
\* the except clauses around the two writes and the lookup after them
ResetHandlersPermissionOnly == {"PermissionError"}
ResetHandlers == {"PermissionError", "OSError"}
Caught(exc) == \E cls \in ResetHandlers : IsInstance(exc, cls)

\* with open(auth_file, "w") as f: f.write(v)
WriteOutcomes(fs, d) ==
    IF AuthorizedExists(fs, d)
    THEN {"ok", "PermissionError", "OSError"}
    ELSE {"FileNotFoundError", "PermissionError", "OSError"}
ErrKind(exc) ==
    CASE exc = "PermissionError" -> "permission"
      [] exc = "FileNotFoundError" -> "auth_missing"
      [] OTHER -> "io"

UsbInit ==
    /\ sysfs = [d \in Devs |-> NoEntry]
    /\ cached_sysfs_path = 0
    /\ upc = "idle"
    /\ sysfs_path = 0
    /\ uret = "none"
    /\ uwrites = <<>>
    /\ uerrs = {}
    /\ ufound = FALSE

\* the call ends: return False, or the exception leaves reset_usb_device
UsbFails(exc, kind) ==
    /\ upc' = "returned"
    /\ uret' = IF exc = "none" \/ Caught(exc) THEN "false" ELSE exc
    /\ uerrs' = uerrs \cup {kind}

\* reset_usb_device(): the cached path if its authorized file exists, else
\* the lookup by vendor id
UsbResetCall ==
    /\ upc = "idle"
    /\ uwrites' = <<>>
    /\ ufound' = FALSE
    /\ IF cached_sysfs_path # 0 /\ AuthorizedExists(sysfs, cached_sysfs_path)
       THEN /\ sysfs_path' = cached_sysfs_path
            /\ upc' = "check"
            /\ uret' = "none"
            /\ uerrs' = {}
            /\ UNCHANGED cached_sysfs_path
       ELSE IF FindCamera(sysfs) = {}
       THEN /\ upc' = "returned"
            /\ uret' = "false"
            /\ uerrs' = {"not_found"}
            /\ sysfs_path' = 0
            /\ UNCHANGED cached_sysfs_path
       ELSE \E d \in FindCamera(sysfs) :
            /\ cached_sysfs_path' = d
            /\ sysfs_path' = d
            /\ upc' = "check"
            /\ uret' = "none"
            /\ uerrs' = {}
    /\ UNCHANGED sysfs
    /\ UNCHANGED <<workerVars, mgrVars, handlerVars, serviceVars>>

\* "if not os.path.exists(auth_file): return False"
UsbCheckAuthorized ==
    /\ upc = "check"
    /\ IF AuthorizedExists(sysfs, sysfs_path)
       THEN upc' = "deauth" /\ UNCHANGED <<uret, uerrs>>
       ELSE UsbFails("none", "auth_missing")
    /\ UNCHANGED <<sysfs, cached_sysfs_path, sysfs_path, uwrites, ufound>>
    /\ UNCHANGED <<workerVars, mgrVars, handlerVars, serviceVars>>

\* step 1: write "0" to authorized, then sleep 1.0
UsbDeauthorize(out) ==
    /\ upc = "deauth"
    /\ out \in WriteOutcomes(sysfs, sysfs_path)
    /\ IF out = "ok"
       THEN /\ uwrites' = Append(uwrites, "0")
            /\ upc' = "reauth"
            /\ UNCHANGED <<uret, uerrs>>
       ELSE UsbFails(out, ErrKind(out)) /\ UNCHANGED uwrites
    /\ UNCHANGED <<sysfs, cached_sysfs_path, sysfs_path, ufound>>
    /\ UNCHANGED <<workerVars, mgrVars, handlerVars, serviceVars>>

\* step 3: write "1" to authorized, then sleep settle_time
UsbReauthorize(out) ==
    /\ upc = "reauth"
    /\ out \in WriteOutcomes(sysfs, sysfs_path)
    /\ IF out = "ok"
       THEN /\ uwrites' = Append(uwrites, "1")
            /\ upc' = "verify"
            /\ UNCHANGED <<uret, uerrs>>
       ELSE UsbFails(out, ErrKind(out)) /\ UNCHANGED uwrites
    /\ UNCHANGED <<sysfs, cached_sysfs_path, sysfs_path, ufound>>
    /\ UNCHANGED <<workerVars, mgrVars, handlerVars, serviceVars>>

\* step 5: find_camera_sysfs_path again; FileNotFoundError is caught there
UsbVerify ==
    /\ upc = "verify"
    /\ IF FindCamera(sysfs) = {}
       THEN UsbFails("none", "not_found") /\ UNCHANGED <<cached_sysfs_path, ufound>>
       ELSE \E d \in FindCamera(sysfs) :
            /\ cached_sysfs_path' = d
            /\ ufound' = TRUE
            /\ upc' = "returned"
            /\ uret' = "true"
            /\ UNCHANGED uerrs
    /\ UNCHANGED <<sysfs, sysfs_path, uwrites>>
    /\ UNCHANGED <<workerVars, mgrVars, handlerVars, serviceVars>>

\* the caller has the result
UsbReturn ==
    /\ upc = "returned"
    /\ upc' = "idle"
    /\ UNCHANGED <<sysfs, cached_sysfs_path, sysfs_path, uret, uwrites, uerrs,
                   ufound>>
    /\ UNCHANGED <<workerVars, mgrVars, handlerVars, serviceVars>>

\* the bus: a device is plugged, unplugged, re-enumerated, or its files
\* become unreadable
SysfsChange(d, e) ==
    /\ e # sysfs[d]
    /\ e.present \/ e = NoEntry
    /\ sysfs' = [sysfs EXCEPT ![d] = e]
    /\ UNCHANGED <<cached_sysfs_path, upc, sysfs_path, uret, uwrites, uerrs,
                   ufound>>
    /\ UNCHANGED <<workerVars, mgrVars, handlerVars, serviceVars>>

UsbNext ==
    \/ UsbResetCall
    \/ UsbCheckAuthorized
    \/ \E out \in {"ok", "PermissionError", "FileNotFoundError", "OSError"} :
           UsbDeauthorize(out)
    \/ \E out \in {"ok", "PermissionError", "FileNotFoundError", "OSError"} :
           UsbReauthorize(out)
    \/ UsbVerify
    \/ UsbReturn
    \/ \E d \in Devs, e \in Entries : SysfsChange(d, e)

(***************************************************************************)
(* CameraWebSocketHandler                                                  *)
(***************************************************************************)
\* the tasks asyncio.create_task can make now: ended, their pool call over,
\* and no longer referred to
FreeTasks(s) ==
    {t \in LoopTasks : /\ s.hpc[t] = "none"
                       /\ s.pc[t] = "idle"
                       /\ s.call[t].kind = "none"
                       /\ s.preview_task # t
                       /\ \A p \in Clients : s.awaiting[p] # t}

\* "self.is_streaming = True" and
\* "self.preview_task = asyncio.create_task(self.preview_stream_loop())"
StartStream(s) ==
    LET t == CHOOSE t \in FreeTasks(s) : TRUE IN
    [s EXCEPT !.is_streaming = TRUE, !.preview_task = t, !.hpc[t] = "new"]

\* handle_capture_photo leaves: was_streaming is gone with its frame
MessageDone(s, p) == [s EXCEPT !.hpc[p] = "recv", !.was_streaming = @ \ {p}]

\* handle_capture_photo past stop_preview_stream: camera_manager.capture_photo,
\* whose "Camera not ready" is sent to the client as an error
HandlerCapture(s, p) ==
    IF IsCameraReadyIn(s)
    THEN CaptureCall([s EXCEPT !.hpc[p] = "capture"], p)
    ELSE MessageDone(s, p)

\* handle_connection returns: the coroutine is over, the websocket is gone
HandlerEnd(s, p) == [s EXCEPT !.hpc[p] = "none", !.alive = @ \ {p}]

\* what the caller of stop_preview_stream does next
AfterStop(s, p, then) ==
    IF then = "capture" THEN HandlerCapture(s, p)
    ELSE IF then = "end" THEN HandlerEnd(s, p)
    ELSE MessageDone(s, p)

\* stop_preview_stream up to "await self.preview_task"; the await of a task
\* that has ended returns at once
StopPreviewStream(s, p, then) ==
    LET t == s.preview_task
        s1 == [s EXCEPT !.is_streaming = FALSE]
    IN IF t = "none" THEN AfterStop(s1, p, then)
       ELSE IF s1.hpc[t] = "none"
       THEN AfterStop([s1 EXCEPT !.preview_task = "none"], p, then)
       ELSE [s1 EXCEPT !.cancel_req = @ \cup {t},
                       !.awaiting[p] = t,
                       !.hpc[p] = IF then = "capture" THEN "cap_stop"
                                  ELSE IF then = "end" THEN "fin_stop"
                                  ELSE "stop"]

\* handle_connection: the websocket joins self.connections, "connected" is sent
Connect(p) ==
    /\ p \in Clients
    /\ hpc[p] = "none"
    /\ Commit([Cur EXCEPT !.connections = @ \cup {p}, !.alive = @ \cup {p},
                          !.hpc[p] = "hello"])

\* send_camera_info: camera_manager.get_camera_info()
SendCameraInfo(p) ==
    /\ hpc[p] = "hello"
    /\ Commit(IF IsCameraReady
              THEN SimpleCallCall([Cur EXCEPT !.hpc[p] = "info"], p,
                                  "get_camera_info")
              ELSE [Cur EXCEPT !.hpc[p] = "recv"])

\* "camera_info" is sent; the coroutine waits in websocket.receive_text()
CameraInfoSent(p) ==
    /\ hpc[p] = "info"
    /\ Finished(p, "get_camera_info")
    /\ Commit([CallOver(Cur, p) EXCEPT !.hpc[p] = "recv"])

\* the peer closes the websocket, between two of its requests; from then on
\* every send_text to it raises
CloseSocket(p) ==
    /\ p \in alive
    /\ hpc[p] = "recv"
    /\ Commit([Cur EXCEPT !.alive = @ \ {p}])

\* a message of the client is there
Received(p) == hpc[p] = "recv" /\ p \in alive

\* websocket.receive_text() raises on the closed websocket; the
\* "except Exception" inside "while True" catches it and calls send_error
ReceiveFails(p) ==
    /\ hpc[p] = "recv"
    /\ p \notin alive
    /\ Commit([Cur EXCEPT !.hpc[p] = "recv_err"])

\* send_error is over (send_message swallowed what send_text raised): the
\* next turn of "while True" calls receive_text again
ReceiveAgain(p) ==
    /\ hpc[p] = "recv_err"
    /\ Commit([Cur EXCEPT !.hpc[p] = "recv"])

\* the server cancels the handle_connection task (it shuts down) while the
\* coroutine is in its receive loop: CancelledError is no Exception, so it
\* passes both except clauses and the finally block runs
HandlerCancelled(p) ==
    LET s == [Cur EXCEPT !.connections = @ \ {p}] IN
    /\ hpc[p] \in {"recv", "recv_err"}
    /\ Commit(IF s.connections = {} /\ s.is_streaming
              THEN StopPreviewStream(s, p, "end")
              ELSE HandlerEnd(s, p))

\* handle_start_preview with the camera ready and no stream yet (otherwise it
\* only answers)
HandleStartPreview(p) ==
    /\ Received(p)
    /\ IsCameraReady
    /\ ~is_streaming
    /\ FreeTasks(Cur) # {}
    /\ Commit(StartStream(Cur))

\* handle_stop_preview
HandleStopPreview(p) ==
    /\ Received(p)
    /\ Commit(StopPreviewStream(Cur, p, "stop"))

\* stop_preview_stream: the awaited task has ended; "self.preview_task = None"
StopPreviewStreamDone(p) ==
    /\ hpc[p] \in {"stop", "cap_stop", "fin_stop"}
    /\ hpc[awaiting[p]] = "none"
    /\ Commit(AfterStop([Cur EXCEPT !.preview_task = "none",
                                    !.awaiting[p] = "none"], p,
                        IF hpc[p] = "cap_stop" THEN "capture"
                        ELSE IF hpc[p] = "fin_stop" THEN "end"
                        ELSE "stop"))

\* handle_capture_photo with the camera ready (otherwise it only answers)
HandleCapturePhoto(p) ==
    /\ Received(p)
    /\ IsCameraReady
    /\ Commit(IF is_streaming
              THEN StopPreviewStream([Cur EXCEPT !.was_streaming = @ \cup {p}],
                                     p, "capture")
              ELSE HandlerCapture(Cur, p))

\* inside camera_manager.capture_photo: stop_preview is back
HandlerCaptureStopDone(p) ==
    /\ hpc[p] = "capture"
    /\ pc[p] = "cap_sp"
    /\ Finished(p, "stop_preview")
    /\ Commit(IF CaptureStopRaises(Cur)
              THEN MessageDone(CaptureStopReturn(Cur, p), p)
              ELSE CaptureStopReturn(Cur, p))

\* camera_manager.capture_photo is back: save_photo, or the error message
HandlerCaptureDone(p) ==
    /\ hpc[p] = "capture"
    /\ pc[p] = "cap_wait"
    /\ Finished(p, "capture_photo")
    /\ CanSpawn(Cur, p)
    /\ Commit(IF CaptureRaises(Cur, p)
              THEN MessageDone(CaptureReturn(Cur, p), p)
              ELSE [CaptureReturn(Cur, p) EXCEPT !.hpc[p] = "save"])

\* save_photo is over: "photo_captured" is sent and the preview started again
\* if it was running; an exception of save_photo is sent as an error
PhotoSaved(p, ok) ==
    LET again == ok /\ p \in was_streaming IN
    /\ hpc[p] = "save"
    /\ again => FreeTasks(Cur) # {}
    /\ Commit(IF again THEN StartStream(MessageDone(Cur, p))
              ELSE MessageDone(Cur, p))

\* preview_stream_loop is resumed at the top of its while loop, not cancelled
LoopRuns(t) ==
    /\ t \in LoopTasks
    /\ hpc[t] \in {"new", "idle_sleep", "frame_sleep", "err_sleep"}
    /\ t \notin cancel_req

\* "if not self.connections"
HasSubscribersAlways(s) == TRUE
HasSubscribersNever(s) == FALSE
HasSubscribers(s) == s.connections # {}

\* "while self.is_streaming" is false: the task ends
LoopEnds(t) ==
    /\ LoopRuns(t)
    /\ ~is_streaming
    /\ Commit([Cur EXCEPT !.hpc[t] = "none"])

\* no connection: asyncio.sleep(0.1) and continue
LoopWaits(t) ==
    /\ LoopRuns(t)
    /\ is_streaming
    /\ ~HasSubscribers(Cur)
    /\ Commit([Cur EXCEPT !.hpc[t] = "idle_sleep"])

\* camera_manager.get_preview_frame(); its "Camera not ready" is caught by the
\* loop, which sleeps 0.5
LoopFetch(t) ==
    /\ LoopRuns(t)
    /\ is_streaming
    /\ HasSubscribers(Cur)
    /\ Commit(IF IsCameraReady
              THEN PreviewCall([Cur EXCEPT !.hpc[t] = "fetch"], t)
              ELSE [Cur EXCEPT !.hpc[t] = "err_sleep"])

\* the frame is back; "for ws in self.connections" sends it to the first
\* websocket, or with no websocket goes on to asyncio.sleep(frame_interval)
LoopFrame(t) ==
    LET s == PreviewReturn(Cur, t) IN
    /\ hpc[t] = "fetch"
    /\ t \notin cancel_req
    /\ Finished(t, "get_preview_frame")
    /\ CanSpawn(Cur, t)
    /\ IF connections = {}
       THEN Commit([s EXCEPT !.hpc[t] = "frame_sleep"])
       ELSE \E w \in connections :
                Commit([s EXCEPT !.hpc[t] = "send",
                                 !.fanout[t] =
                                     [size |-> Cardinality(connections),
                                      todo |-> connections \ {w},
                                      cur |-> w, failed |-> {}]])

\* a send_text is over (it raised if the peer is gone): the next websocket of
\* the iteration, RuntimeError when the set changed size, or after the last
\* one "self.connections -= disconnected" and asyncio.sleep(frame_interval)
LoopSent(t) ==
    LET f == fanout[t]
        failed == IF f.cur \in alive THEN f.failed ELSE f.failed \cup {f.cur}
        todo == f.todo \cap connections
    IN /\ hpc[t] = "send"
       /\ t \notin cancel_req
       /\ IF Cardinality(connections) # f.size
          THEN Commit([Cur EXCEPT !.hpc[t] = "err_sleep", !.fanout[t] = NoFanout])
          ELSE IF todo = {}
          THEN Commit([Cur EXCEPT !.connections = @ \ failed,
                                  !.hpc[t] = "frame_sleep",
                                  !.fanout[t] = NoFanout])
          ELSE \E w \in todo :
                   Commit([Cur EXCEPT !.fanout[t] = [f EXCEPT !.todo = todo \ {w},
                                                              !.cur = w,
                                                              !.failed = failed]])

\* the task is resumed with CancelledError, which nothing in the loop or in
\* get_preview_frame catches: the task ends; a call running in the pool goes on
LoopCancelled(t) ==
    LET s == [Cur EXCEPT !.hpc[t] = "none", !.cancel_req = @ \ {t},
                         !.fanout[t] = NoFanout]
    IN /\ t \in cancel_req
       /\ Commit(IF call[t].kind = "none" THEN s
                 ELSE IF call[t].phase = "done" THEN CallOver(s, t)
                 ELSE [s EXCEPT !.pc[t] = "orphan"])

\* the pool call of a cancelled task is over; nobody takes its result
ThreadDropped(t) ==
    /\ pc[t] = "orphan"
    /\ call[t].phase = "done"
    /\ Commit(CallOver(Cur, t))

\* the manager after the initialize() of main.lifespan has connected the camera
MgrConnected ==
    /\ camera = 1
    /\ lock = "free"
    /\ restart_attempts = 0
    /\ usb_reset_count = 0
    /\ is_initialized = TRUE
    /\ auto_usb_reset = TRUE
    /\ cams = [c \in CamIds |-> IF c = 1 THEN [Fresh EXCEPT !.handle = TRUE]
                                ELSE Fresh]
    /\ pc = [p \in Procs |-> "idle"]
    /\ req = [p \in Procs |-> NoReq]
    /\ call = [p \in Procs |-> NoCall]
    /\ conn = NoConn
    /\ ret = [p \in Procs |-> NoRet]
    /\ allPlain = TRUE
    /\ helperRuns = 0
    /\ traced = FALSE
    /\ recoverPending = 0

HandlerNext ==
    \/ \E p \in Clients : Connect(p)
    \/ \E p \in Clients : SendCameraInfo(p)
    \/ \E p \in Clients : CameraInfoSent(p)
    \/ \E p \in Clients : CloseSocket(p)
    \/ \E p \in Clients : HandleStartPreview(p)
    \/ \E p \in Clients : HandleStopPreview(p)
    \/ \E p \in Clients : StopPreviewStreamDone(p)
    \/ \E p \in Clients : HandleCapturePhoto(p)
    \/ \E p \in Clients : HandlerCaptureStopDone(p)
    \/ \E p \in Clients : HandlerCaptureDone(p)
    \/ \E p \in Clients, ok \in BOOLEAN : PhotoSaved(p, ok)
    \/ \E t \in LoopTasks : LoopEnds(t)
    \/ \E t \in LoopTasks : LoopWaits(t)
    \/ \E t \in LoopTasks : LoopFetch(t)
    \/ \E t \in LoopTasks : LoopFrame(t)
    \/ \E t \in LoopTasks : LoopSent(t)
    \/ \E t \in LoopTasks : LoopCancelled(t)
    \/ \E t \in LoopTasks : ThreadDropped(t)
    \/ \E p \in Procs, out \in {"ok", "fail", "exc"} : PreviewEnds(p, out)
    \/ \E p \in Procs, out \in {"ok", "fail"} : CaptureEnds(p, out)
    \/ \E p \in Procs : StopPreviewEnds(p)
    \/ \E p \in Procs, out \in {"ok", "exc"} : SimpleEnds(p, out)

\* the websockets come and go under a preview stream: connections, peers that
\* close, the server cancelling handlers, start_preview messages, the loop
ConnectionNext ==
    \/ \E p \in Clients : Connect(p)
    \/ \E p \in Clients : SendCameraInfo(p)
    \/ \E p \in Clients : CameraInfoSent(p)
    \/ \E p \in Clients : CloseSocket(p)
    \/ \E p \in Clients : ReceiveFails(p)
    \/ \E p \in Clients : ReceiveAgain(p)
    \/ \E p \in Clients : HandlerCancelled(p)
    \/ \E p \in Clients : HandleStartPreview(p)
    \/ \E p \in Clients : StopPreviewStreamDone(p)
    \/ \E t \in LoopTasks : LoopEnds(t)
    \/ \E t \in LoopTasks : LoopWaits(t)
    \/ \E t \in LoopTasks : LoopFetch(t)
    \/ \E t \in LoopTasks : LoopFrame(t)
    \/ \E t \in LoopTasks : LoopSent(t)
    \/ \E t \in LoopTasks : LoopCancelled(t)
    \/ \E t \in LoopTasks : ThreadDropped(t)
    \/ \E p \in Procs, out \in {"ok", "fail", "exc"} : PreviewEnds(p, out)
    \/ \E p \in Procs, out \in {"ok", "exc"} : SimpleEnds(p, out)

(***************************************************************************)
(* GPhoto2Backend (services/camera): the methods are called one at a time, *)
(* by the tests directly and by the service through the worker thread      *)
(***************************************************************************)
\* CameraConfig defaults
config == [iso_liveview |-> "1600", shutter_speed_liveview |-> "1/60",
           exposure_mode |-> "P", iso_capture |-> "100",
           shutter_speed_capture |-> "1/125",
           disable_viewfinder_before_capture |-> TRUE,
           canon_eosmoviemode |-> FALSE]

\* the settings _set_config is called for; an input "bad" of a method is the
\* set of those the camera refuses during that call
ConfigFields == {"capturetarget", "iso", "shutterspeed", "viewfinder",
                 "autoexposuremode"}
\* the refusals the model tries: none, one setting, or the exposure mode
\* together with one of the settings of the fallback
Refusals ==
    {{}} \cup {{f} : f \in ConfigFields}
         \cup {{"autoexposuremode", f} : f \in {"iso", "shutterspeed"}}

\* GPhoto2Backend.__init__; elapsed: the time since
\* _liveview_stats['last_frame_time'] (0.0 at first) is at least
\* 1 / frame_rate_cap
Backend0 == [initialized |-> FALSE, connected |-> FALSE, camera |-> FALSE,
             liveview_active |-> FALSE, elapsed |-> TRUE, frame_count |-> 0,
             capture_count |-> 0, consecutive_errors |-> 0]

NoBres == [op |-> "none", res |-> "none", dev |-> FALSE, was |-> FALSE,
           cfg |-> FALSE, fails |-> 0, seq |-> 0]

\* the result of a method call: the backend after it, how it ended, whether
\* it called the device, was_liveview for capture_photo, and whether it
\* failed because _set_config raised
Ends(b, res, dev) ==
    [b |-> b, res |-> res, dev |-> dev, was |-> FALSE, cfg |-> FALSE]

\* no liveview_stream coroutine
NoStream == [pc |-> "none", op |-> 0, capturing |-> FALSE]

\* no frame-fetch entry point was called yet
NoFetch == [by |-> "none", res |-> "none", seq |-> 0]

ServiceInit ==
    /\ backend = Backend0
    /\ bres = NoBres
    /\ lifecycle = "none"
    /\ func = [o \in OpIds |-> "other"]
    /\ fetch = NoFetch
    /\ stream = NoStream

\* is_connected()
IsConnected(b) == b.connected /\ b.initialized /\ b.camera

\* _configure_for_liveview() raises: _set_config raises for iso, shutterspeed
\* or viewfinder (eosmoviemode alone is tried and ignored)
LiveviewConfigFails(bad) ==
    \/ config.iso_liveview # "" /\ "iso" \in bad
    \/ config.shutter_speed_liveview # "" /\ "shutterspeed" \in bad
    \/ "viewfinder" \in bad

\* _configure_for_capture() raises: the viewfinder setting is tried and
\* ignored; when the exposure mode cannot be set, the except clause sets iso
\* and shutterspeed itself, unprotected
CaptureConfigFails(bad) ==
    /\ config.exposure_mode = "P"
    /\ "autoexposuremode" \in bad
    /\ \/ config.iso_capture # "" /\ "iso" \in bad
       \/ config.shutter_speed_capture # "" /\ "shutterspeed" \in bad

\* the reset of _liveview_stats, with last_frame_time = time.time()
ResetStats(b) == [b EXCEPT !.frame_count = 0, !.capture_count = 0,
                           !.elapsed = FALSE]

\* cleanup()
CleanedUp(b) == [b EXCEPT !.liveview_active = FALSE, !.camera = FALSE,
                          !.initialized = FALSE, !.connected = FALSE]

\* initialize(): "if self._initialized: return"
AlreadyInitializedNever(b) == FALSE
AlreadyInitialized(b) == b.initialized

\* initialize(); init_ok: camera.init() and get_summary() succeed
BackendInitialize(b, init_ok, bad) ==
    IF AlreadyInitialized(b) THEN Ends(b, "noop", FALSE)
    ELSE IF ~init_ok
    THEN Ends(CleanedUp([b EXCEPT !.camera = TRUE]), "raise", TRUE)
    ELSE IF LiveviewConfigFails(bad)
    THEN [Ends(CleanedUp([b EXCEPT !.camera = TRUE]), "raise", TRUE)
             EXCEPT !.cfg = TRUE]
    ELSE Ends([b EXCEPT !.camera = TRUE, !.initialized = TRUE,
                        !.connected = TRUE], "ok", TRUE)

\* cleanup()
BackendCleanup(b) == Ends(CleanedUp(b), "ok", b.camera)

\* start_liveview()
BackendStartLiveview(b, bad) ==
    IF ~IsConnected(b) THEN Ends(b, "raise", FALSE)
    ELSE IF b.liveview_active THEN Ends(b, "noop", FALSE)
    ELSE IF LiveviewConfigFails(bad)
    THEN [Ends(b, "raise", TRUE) EXCEPT !.cfg = TRUE]
    ELSE Ends([ResetStats(b) EXCEPT !.liveview_active = TRUE], "ok", TRUE)

\* stop_liveview()
BackendStopLiveview(b) ==
    IF ~b.liveview_active THEN Ends(b, "noop", FALSE)
    ELSE Ends([b EXCEPT !.liveview_active = FALSE], "ok", b.camera)

\* _max_consecutive_errors
max_consecutive_errors == 10
\* what camera.capture_preview() can give: a frame, data under 1000 bytes,
\* an "I/O in progress" error, another error
PreviewOutcomes == {"frame", "small", "io", "err"}

\* get_liveview_frame(); res "raise_io" is the RuntimeError whose text holds
\* the text of an I/O error
BackendGetLiveviewFrame(b, out) ==
    IF ~IsConnected(b) \/ ~b.liveview_active THEN Ends(b, "raise", FALSE)
    ELSE IF ~b.elapsed THEN Ends(b, "None", FALSE)
    ELSE IF out = "frame"
    THEN Ends([b EXCEPT !.elapsed = FALSE, !.frame_count = @ + 1,
                        !.consecutive_errors = 0], "frame", TRUE)
    ELSE IF out = "small" THEN Ends(b, "None", TRUE)
    ELSE IF b.consecutive_errors + 1 >= max_consecutive_errors
    THEN Ends([b EXCEPT !.consecutive_errors = @ + 1,
                        !.liveview_active = FALSE],
              IF out = "io" THEN "raise_io" ELSE "raise", TRUE)
    ELSE Ends([b EXCEPT !.consecutive_errors = @ + 1], "None", TRUE)

\* capture_photo(): "if not self.is_connected(): return CaptureResult(...)"
CaptureRefusedNever(b) == FALSE
CaptureRefused(b) == ~IsConnected(b)

\* what camera.capture() and the download can give: the JPEG, no JPEG among
\* the captured files, an exception
CaptureOutcomes == {"ok", "nojpeg", "exc"}

\* capture_photo(): the try block, then the finally block that resumes the
\* live view; an exception of the finally block replaces the return value
BackendCapturePhoto(b, out, bad1, bad2) ==
    LET was == b.liveview_active
        b1 == [b EXCEPT !.liveview_active = FALSE]
        done == ~CaptureConfigFails(bad1) /\ out = "ok"
        b2 == IF done THEN [b1 EXCEPT !.capture_count = @ + 1] ELSE b1
        res == IF done THEN "success" ELSE "failure"
        cfg == CaptureConfigFails(bad1)
    IN IF CaptureRefused(b) THEN Ends(b, "not_connected", FALSE)
       ELSE IF ~was
       THEN [Ends(b2, res, TRUE) EXCEPT !.was = was, !.cfg = cfg]
       ELSE IF LiveviewConfigFails(bad2)
       THEN [Ends(b2, "raise", TRUE) EXCEPT !.was = was, !.cfg = TRUE]
       ELSE [Ends([ResetStats(b2) EXCEPT !.liveview_active = TRUE,
                                         !.consecutive_errors = 0],
                  res, TRUE) EXCEPT !.was = was, !.cfg = cfg]

\* history: the calls of camera.capture_preview() that gave no frame, in a
\* row, since live view was last started (by start_liveview() or by the
\* finally block of capture_photo()); counted up to _max_consecutive_errors
FailsInARow(op, r) ==
    IF ~traced THEN bres.fails
    ELSE IF op = "start_liveview" /\ r.res = "ok" THEN 0
    ELSE IF op = "capture_photo" /\ r.dev /\ r.b.liveview_active THEN 0
    ELSE IF op = "get_liveview_frame" /\ r.dev
    THEN IF r.res = "frame" THEN 0
         ELSE IF bres.fails < max_consecutive_errors THEN bres.fails + 1
         ELSE bres.fails
    ELSE bres.fails

\* a method of the backend is called and returns or raises
BackendCall(op, r) ==
    /\ backend' = r.b
    /\ bres' = [op |-> op, res |-> r.res, dev |-> r.dev, was |-> r.was,
                cfg |-> r.cfg, fails |-> FailsInARow(op, r),
                seq |-> 1 - bres.seq]
    /\ lifecycle' = IF op = "initialize" /\ r.res = "ok" THEN "initialize_ok"
                    ELSE IF op = "initialize" /\ r.res = "raise"
                    THEN "initialize_failed"
                    ELSE IF op = "cleanup" THEN "cleanup"
                    ELSE lifecycle

\* counters of the backend the model lets grow
CountersInBound(b) ==
    /\ b.frame_count <= MaxCount
    /\ b.capture_count <= MaxCount
    /\ b.consecutive_errors <= MaxErrors

DirectCall(op, r) ==
    /\ CountersInBound(r.b)
    /\ BackendCall(op, r)
    /\ UNCHANGED <<func, fetch, stream>>
    /\ UNCHANGED <<workerVars, mgrVars, handlerVars, usbVars>>

Initialize_(init_ok, bad) ==
    DirectCall("initialize", BackendInitialize(backend, init_ok, bad))
Cleanup_ == DirectCall("cleanup", BackendCleanup(backend))
StartLiveview(bad) ==
    DirectCall("start_liveview", BackendStartLiveview(backend, bad))
StopLiveview == DirectCall("stop_liveview", BackendStopLiveview(backend))
GetLiveviewFrame(out) ==
    DirectCall("get_liveview_frame", BackendGetLiveviewFrame(backend, out))
CapturePhoto_(out, bad1, bad2) ==
    DirectCall("capture_photo", BackendCapturePhoto(backend, out, bad1, bad2))

\* time passes: 1 / frame_rate_cap since last_frame_time
Tick ==
    /\ ~backend.elapsed
    /\ backend' = [backend EXCEPT !.elapsed = TRUE]
    /\ UNCHANGED <<bres, lifecycle, func, fetch, stream>>
    /\ UNCHANGED <<workerVars, mgrVars, handlerVars, usbVars>>

BackendNext ==
    \/ \E init_ok \in BOOLEAN, bad \in Refusals : Initialize_(init_ok, bad)
    \/ Cleanup_
    \/ \E bad \in Refusals : StartLiveview(bad)
    \/ StopLiveview
    \/ \E out \in PreviewOutcomes : GetLiveviewFrame(out)
    \/ \E out \in CaptureOutcomes, bad1, bad2 \in Refusals :
           CapturePhoto_(out, bad1, bad2)
    \/ Tick

(***************************************************************************)
(* CameraWorker and CameraWorkerAdapter over the GPhoto2Backend: the frame *)
(* fetch                                                                   *)
(***************************************************************************)
\* the backend after initialize() and start_liveview() went through;
\* start_liveview() does not reset _consecutive_errors, so n is what earlier
\* live views left there
Streaming0(n) ==
    [BackendStartLiveview(BackendInitialize(Backend0, TRUE, {}).b, {}).b
        EXCEPT !.consecutive_errors = n]

\* CameraWorker.get_liveview_frame: "if time_since_last < min_frame_time:
\* return None"
RateLimited(b) == ~b.elapsed

\* a frame-fetch entry point was called and went as res
Fetched(by, res) == fetch' = [by |-> by, res |-> res, seq |-> 1 - fetch.seq]

\* CameraWorker.get_liveview_frame(): the rate limit, then
\* self.submit(self.backend._capture_preview_frame), whose argument is an
\* attribute GPhoto2Backend does not have (AttributeError before submit)
WorkerLiveviewFrame ==
    /\ Fetched("worker", IF RateLimited(backend) THEN "None" ELSE "raised")
    /\ UNCHANGED <<backend, bres, lifecycle, func, stream>>
    /\ UNCHANGED <<workerVars, mgrVars, handlerVars, usbVars>>

\* CameraWorkerAdapter.get_liveview_frame():
\* self.worker.submit(self.backend.get_liveview_frame)
AdapterLiveviewFrame ==
    /\ SubmitOperation
    /\ func' = [func EXCEPT ![submitted + 1] = "get_liveview_frame"]
    /\ Fetched("adapter", "queued")
    /\ UNCHANGED <<backend, bres, lifecycle, stream>>
    /\ UNCHANGED <<mgrVars, handlerVars, usbVars>>

\* how _execute_operation sees the end of backend.get_liveview_frame
FrameOutcome(res) ==
    IF res \in {"frame", "None"} THEN "ok"
    ELSE IF res = "raise_io" THEN "transient" ELSE "terminal"

\* _execute_operation() of backend.get_liveview_frame on the worker thread
FrameFinish(t, out) ==
    LET r == BackendGetLiveviewFrame(backend, out) IN
    /\ wpc[t] = "exec"
    /\ func[wcur[t]] = "get_liveview_frame"
    /\ CountersInBound(r.b)
    /\ BackendCall("get_liveview_frame", r)
    /\ ExecuteOperation(t, FrameOutcome(r.res))
    /\ UNCHANGED <<func, fetch, stream>>
    /\ UNCHANGED <<mgrVars, handlerVars, usbVars>>

FetchNext ==
    \/ \E t \in Threads : Start(t)
    \/ WorkerLiveviewFrame
    \/ AdapterLiveviewFrame
    \/ \E t \in Threads : WorkerGet(t)
    \/ \E t \in Threads, out \in PreviewOutcomes : FrameFinish(t, out)
    \/ \E t \in Threads : WorkerRequeue(t)
    \/ Tick

(***************************************************************************)
(* The worker-based service: liveview_stream and the capture endpoint      *)
(***************************************************************************)
\* capture_photo is between "self._liveview_active = False" and its finally
\* block, on the worker thread
CaptureRunning == bres.op = "capture_photo" /\ bres.res = "running"

\* liveview_stream, top of "while True": the two tests on the backend, read
\* on the event loop while the worker thread may be in a backend method,
\* then camera_worker.get_liveview_frame() up to its await
StreamCheck ==
    /\ stream.pc = "check"
    /\ IF ~IsConnected(backend)
       THEN /\ stream' = [stream EXCEPT !.pc = "disconnected"]
            /\ UNCHANGED <<workerVars, func>>
       ELSE IF ~backend.liveview_active
       THEN /\ stream' = [stream EXCEPT !.pc = "not_active",
                                        !.capturing = CaptureRunning]
            /\ UNCHANGED <<workerVars, func>>
       ELSE /\ SubmitOperation
            /\ func' = [func EXCEPT ![submitted + 1] = "get_liveview_frame"]
            /\ stream' = [stream EXCEPT !.pc = "wait", !.op = submitted + 1]
    /\ UNCHANGED <<backend, bres, lifecycle, fetch>>
    /\ UNCHANGED <<mgrVars, handlerVars, usbVars>>

\* liveview_stream: the future of the frame is resolved; the frame is sent,
\* or the coroutine sleeps, and the loop starts again (an exception is
\* counted in error_count, which ends the loop only above max_errors = 50)
StreamResumes ==
    /\ stream.pc = "wait"
    /\ future[stream.op] \in {"ok", "exc"}
    /\ stream' = [stream EXCEPT !.pc = "check", !.op = 0]
    /\ UNCHANGED <<backend, bres, lifecycle, func, fetch>>
    /\ UNCHANGED <<workerVars, mgrVars, handlerVars, usbVars>>

\* POST /api/v1/camera/capture: "if not backend.is_connected(): raise",
\* then camera_worker.capture_photo(output_path) up to its await
CaptureRequest ==
    /\ IsConnected(backend)
    /\ SubmitOperation
    /\ func' = [func EXCEPT ![submitted + 1] = "capture_photo"]
    /\ UNCHANGED <<backend, bres, lifecycle, fetch, stream>>
    /\ UNCHANGED <<mgrVars, handlerVars, usbVars>>

\* backend.capture_photo on the worker thread, up to the try block:
\* was_liveview is taken and live view is marked inactive
CaptureBegins(t) ==
    /\ wpc[t] = "exec"
    /\ func[wcur[t]] = "capture_photo"
    /\ ~CaptureRunning
    /\ bres' = [bres EXCEPT !.op = "capture_photo", !.res = "running",
                            !.was = backend.liveview_active,
                            !.seq = 1 - bres.seq]
    /\ backend' = IF CaptureRefused(backend) THEN backend
                  ELSE [backend EXCEPT !.liveview_active = FALSE]
    /\ UNCHANGED <<lifecycle, func, fetch, stream>>
    /\ UNCHANGED <<workerVars, mgrVars, handlerVars, usbVars>>

\* how _execute_operation sees the end of backend.capture_photo: a
\* CaptureResult, or the exception of the finally block, whose text is the
\* camera's (io: it is of the "I/O in progress" class)
CaptureOutcome(res, io) ==
    IF res # "raise" THEN "ok" ELSE IF io THEN "transient" ELSE "terminal"

\* backend.capture_photo on the worker thread: the try block and the finally
\* block, then _execute_operation's handling of the result
CaptureFinish(t, out, bad, io) ==
    LET r == BackendCapturePhoto(
                 [backend EXCEPT !.liveview_active = bres.was], out, {}, bad)
    IN /\ wpc[t] = "exec"
       /\ func[wcur[t]] = "capture_photo"
       /\ CaptureRunning
       /\ CountersInBound(r.b)
       /\ BackendCall("capture_photo", r)
       /\ ExecuteOperation(t, CaptureOutcome(r.res, io))
       /\ UNCHANGED <<func, fetch, stream>>
       /\ UNCHANGED <<mgrVars, handlerVars, usbVars>>

StreamNext ==
    \/ StreamCheck
    \/ StreamResumes
    \/ CaptureRequest
    \/ \E t \in Threads : WorkerGet(t)
    \/ \E t \in Threads, out \in PreviewOutcomes : FrameFinish(t, out)
    \/ \E t \in Threads : CaptureBegins(t)
    \/ \E t \in Threads, out \in CaptureOutcomes,
          bad \in {{}, {"viewfinder"}}, io \in BOOLEAN :
           CaptureFinish(t, out, bad, io)
    \/ \E t \in Threads : WorkerRequeue(t)
    \/ Tick

Init == WorkerInit /\ MgrInit /\ HandlerInit /\ UsbInit /\ ServiceInit
Next ==
    WorkerNext \/ StopNext \/ MgrNext \/ UsbNext \/ HandlerNext \/ ConnectionNext
        \/ BackendNext \/ FetchNext \/ StreamNext
Spec == Init /\ [][Next]_vars

\* the worker-based service alone, the manager-based service alone
SpecWorker == Init /\ [][WorkerNext]_vars

\* CameraWorker started and stopped any number of times while operations are
\* submitted; every thread that can go on does so
SpecStop == Init /\ [][StopNext]_vars /\ StopFair

\* the manager-based service: every method of CameraManager, two callers
InitManager == Init /\ ~traced
SpecManager == InitManager /\ [][MgrNext]_vars

\* UsbResetHelper.reset_usb_device called again and again while the bus changes
InitUsb == Init /\ ~traced /\ auto_usb_reset
SpecUsb == InitUsb /\ [][UsbNext]_vars

\* GPhoto2Backend: its methods called in any order, with any behaviour of
\* the camera
SpecBackend == InitUsb /\ [][BackendNext]_vars

\* GPhoto2Backend with the history of its frame captures recorded: live view
\* is started, stopped and read, photos are captured
LiveviewNext ==
    \/ \E init_ok \in BOOLEAN : Initialize_(init_ok, {})
    \/ \E bad \in {{}, {"viewfinder"}} : StartLiveview(bad)
    \/ StopLiveview
    \/ \E out \in PreviewOutcomes : GetLiveviewFrame(out)
    \/ \E out \in CaptureOutcomes, bad \in {{}, {"viewfinder"}} :
           CapturePhoto_(out, {}, bad)
    \/ Tick
InitLiveview == Init /\ traced /\ auto_usb_reset
SpecLiveview == InitLiveview /\ [][LiveviewNext]_vars

\* the camera service while it streams: frames are fetched through both
\* entry points, the worker thread runs the queued fetches
InitFetch ==
    /\ WorkerInit /\ MgrInit /\ HandlerInit /\ UsbInit
    /\ ~traced /\ auto_usb_reset
    /\ backend \in {Streaming0(n) : n \in {0, max_consecutive_errors - 1}}
    /\ bres = NoBres
    /\ lifecycle = "initialize_ok"
    /\ func = [o \in OpIds |-> "other"]
    /\ fetch = NoFetch
    /\ stream = NoStream
SpecFetch == InitFetch /\ [][FetchNext]_vars

\* the worker-based service with one live-view websocket open: the worker
\* thread was started at startup, the backend is connected and streaming
InitStream ==
    /\ MgrInit /\ HandlerInit /\ UsbInit
    /\ ~traced /\ auto_usb_reset
    /\ queue = <<>>
    /\ running = TRUE
    /\ wpc = [t \in Threads |-> IF t = "t1" THEN "get" ELSE "none"]
    /\ wcur = [t \in Threads |-> 0]
    /\ submitted = 0
    /\ retry_count = [o \in OpIds |-> 0]
    /\ future = [o \in OpIds |-> "none"]
    /\ execs = [o \in OpIds |-> 0]
    /\ fails = [o \in OpIds |-> 0]
    /\ lastOutcome = [o \in OpIds |-> "none"]
    /\ delay = [o \in OpIds |-> <<>>]
    /\ slept = [o \in OpIds |-> 0]
    /\ backend \in {Streaming0(n) : n \in {0, max_consecutive_errors - 1}}
    /\ bres = NoBres
    /\ lifecycle = "initialize_ok"
    /\ func = [o \in OpIds |-> "other"]
    /\ fetch = NoFetch
    /\ stream = [NoStream EXCEPT !.pc = "check"]
SpecStream == InitStream /\ [][StreamNext]_vars

\* CameraWebSocketHandler over a CameraManager that connected at startup:
\* two websocket clients sending start_preview, stop_preview and capture_photo
\* messages, two preview loop tasks; without protocol timeouts, so without
\* restarts of the camera
InitHandler ==
    WorkerInit /\ MgrConnected /\ HandlerInit /\ UsbInit /\ ServiceInit
SpecHandler == InitHandler /\ [][HandlerNext]_vars

\* what the event loop and the thread pool guarantee: a coroutine that can go
\* on is resumed, a call running in a pool thread comes to its end; nothing
\* makes a peer send, close or connect, nor the server cancel a handler
HandlerSteps(p) ==
    \/ SendCameraInfo(p)
    \/ CameraInfoSent(p)
    \/ ReceiveFails(p)
    \/ ReceiveAgain(p)
    \/ StopPreviewStreamDone(p)
LoopSteps(t) ==
    \/ LoopEnds(t)
    \/ LoopWaits(t)
    \/ LoopFetch(t)
    \/ LoopFrame(t)
    \/ LoopSent(t)
    \/ LoopCancelled(t)
    \/ ThreadDropped(t)
PoolSteps(p) ==
    \/ \E out \in {"ok", "fail", "exc"} : PreviewEnds(p, out)
    \/ \E out \in {"ok", "exc"} : SimpleEnds(p, out)
ConnectionFair ==
    /\ \A p \in Clients : WF_vars(HandlerSteps(p))
    /\ \A t \in LoopTasks : WF_vars(LoopSteps(t))
    /\ \A p \in Procs : WF_vars(PoolSteps(p))

\* the same service with its websockets coming and going
SpecConnection == InitHandler /\ [][ConnectionNext]_vars /\ ConnectionFair

\* the lifecycle methods of CameraManager alone, two callers, with the history
\* of each connect sequence recorded
InitLifecycle == Init /\ traced
SpecLifecycle == InitLifecycle /\ [][LifecycleNext]_vars

\* the same, with the event loop resuming every coroutine that can go on and
\* every call handed to the thread pool returning or raising
SequenceSteps(p) ==
    \/ LockAcquired(p)
    \/ InitializeDone(p)
    \/ ConnectResetDone(p)
    \/ SleepDone(p)
    \/ RestartDisconnectDone(p)
    \/ RestartResetDone(p)
    \/ ShutdownDisconnectDone(p)
    \/ Return(p)
PoolReturns(p) ==
    \/ \E out \in {"ok", "plain", "timeout"}, h \in BOOLEAN :
           InitializeEnds(p, out, h)
    \/ DisconnectEnds(p)
    \/ \E ok \in BOOLEAN : UsbResetEnds(p, ok)

\* one coroutine calling the lifecycle methods one after the other: whatever
\* else calls them meanwhile waits for the lock
Owner == "p1"
OwnerNext ==
    \/ Initialize(Owner)
    \/ \E force \in BOOLEAN : RestartCamera(Owner, force)
    \/ Shutdown(Owner)
    \/ InitializeDone(Owner)
    \/ ConnectResetDone(Owner)
    \/ SleepDone(Owner)
    \/ RestartDisconnectDone(Owner)
    \/ RestartResetDone(Owner)
    \/ ShutdownDisconnectDone(Owner)
    \/ \E out \in {"ok", "plain", "timeout"}, h \in BOOLEAN :
           InitializeEnds(Owner, out, h)
    \/ DisconnectEnds(Owner)
    \/ \E ok \in BOOLEAN : UsbResetEnds(Owner, ok)
    \/ Return(Owner)
OwnerFair == WF_vars(SequenceSteps(Owner)) /\ WF_vars(PoolReturns(Owner))
SpecOwner == InitLifecycle /\ [][OwnerNext]_vars /\ OwnerFair

\* operations whose function is being called right now
Executing == {t \in Threads : wpc[t] = "exec"}
InQueue(o) == \E i \in 1..Len(queue) : queue[i] = o
Held(o) == \E t \in Threads : wcur[t] = o

(***************************************************************************)
(* C1: at most one operation's function is executing at any instant,       *)
(* however many operations callers have submitted to the started worker.   *)
(***************************************************************************)
C1_OneAtATime == Cardinality(Executing) <= 1

\* one operation is executing while another submitted one waits in the queue
C1_Witness ==
    /\ Cardinality(Executing) = 1
    /\ submitted >= 2
    /\ queue # <<>>

(***************************************************************************)
(* C2: operations execute strictly in submission order: an operation       *)
(* submitted later has not started executing while an operation submitted  *)
(* before it still has an unresolved future, retries included.             *)
(***************************************************************************)
C2_FifoUntilResolved ==
    \A a, b \in OpIds :
        (a < b /\ execs[b] > 0) => future[a] \in {"ok", "exc"}

(***************************************************************************)
(* C3: a transiently failing operation is re-executed until it first       *)
(* succeeds or has been retried max_retries times: k <= max_retries        *)
(* transient failures followed by a success resolve the future to the      *)
(* success value; when every attempt fails transiently the future resolves *)
(* to failure after exactly max_retries retries; a resolved operation is   *)
(* neither queued nor held by the worker, so it is never executed again.   *)
(***************************************************************************)
C3_RetryUntilSuccessOrExhausted ==
    \A o \in OpIds :
        /\ retry_count[o] <= max_retries
        /\ lastOutcome[o] = "ok" =>
              /\ future[o] = "ok"
              /\ fails[o] <= max_retries
              /\ execs[o] = fails[o] + 1
        /\ future[o] = "ok" => lastOutcome[o] = "ok"
        /\ (lastOutcome[o] = "transient" /\ fails[o] <= max_retries) =>
              /\ future[o] = "pending"
              /\ retry_count[o] = fails[o]
              /\ InQueue(o) \/ Held(o)
        /\ (lastOutcome[o] = "transient" /\ fails[o] > max_retries) =>
              /\ future[o] = "exc"
              /\ retry_count[o] = max_retries
              /\ fails[o] = max_retries + 1
              /\ execs[o] = max_retries + 1
        /\ future[o] \in {"ok", "exc"} => ~InQueue(o) /\ ~Held(o)

\* two transient failures, then success on the third attempt
C3_Witness ==
    \E o \in OpIds :
        fails[o] = 2 /\ execs[o] = 3 /\ future[o] = "ok"

\* every attempt failed transiently: failure after max_retries retries
C3_WitnessExhausted ==
    \E o \in OpIds :
        /\ future[o] = "exc" /\ lastOutcome[o] = "transient"
        /\ retry_count[o] = max_retries

DeviceCallRunning(p) == call[p].kind \in DeviceKinds /\ call[p].phase = "run"

\* C5: the calls that touch the device handle (initialize, get_preview_frame,
\* capture_photo, stop_preview, set_config_value, get_config_value,
\* get_camera_info, disconnect) run one at a time: no two of them, on one
\* camera object, are running at the same moment
C5_DeviceCallsSerialized ==
    \A p, q \in Procs :
        (p # q /\ DeviceCallRunning(p) /\ DeviceCallRunning(q))
            => call[p].cam # call[q].cam

\* p is inside initialize(), restart_camera() or shutdown(), past the lock
InSequence(p) ==
    pc[p] \in {"c_init", "c_reset", "c_settle", "c_delay", "r_disc", "r_reset",
               "s_disc"}

\* C6: at most one connect / restart / recovery / shutdown sequence is in
\* progress at any time, and it is the one holding the lock
C6_OneSequenceAtATime ==
    /\ Cardinality({p \in Procs : InSequence(p)}) <= 1
    /\ \A p \in Procs : InSequence(p) => lock = p

\* a sequence is in progress while another caller waits for the lock
C6_Witness ==
    \E p, q \in Procs : InSequence(p) /\ pc[q] = "wait" /\ req[q].kind # "none"

\* the lifecycle call p has just returned from went through a connect sequence
ConnectReturned(p) ==
    pc[p] = "ret" /\ ret[p].kind \in {"initialize", "restart"}

\* C7: when every connect attempt fails with a non-timeout error, every
\* connect sequence makes exactly max_restart_attempts attempts and then
\* fails, and is_camera_ready() is false after it
C7_ExactlyNAttempts ==
    \A p \in Procs :
        (ConnectReturned(p) /\ ret[p].allPlain)
            => /\ ret[p].attempts = max_restart_attempts
               /\ ~ret[p].ok
               /\ ~ret[p].ready

\* the connect sequence p has returned from was: one attempt that failed
\* with a timeout, a USB reset that succeeded, one attempt that succeeded
TimeoutResetSuccess(p) ==
    /\ ConnectReturned(p)
    /\ ~ret[p].forced
    /\ ret[p].attempts = 2
    /\ ret[p].timeouts = 1
    /\ ret[p].resetsOk = 1
    /\ ret[p].lastOut = "ok"

\* C8: after a timeout, a successful USB reset and a successful attempt the
\* sequence ends connected and ready (IDLE), with the restart counter where
\* the sequence found it and the reset helper run exactly once
C8_TimeoutResetRecovers ==
    \A p \in Procs :
        TimeoutResetSuccess(p)
            => /\ ret[p].ok
               /\ ret[p].ready
               /\ ret[p].state = "idle"
               /\ ret[p].connEnd = ret[p].start
               /\ ret[p].resets = 1

C8_Witness == \E p \in Procs : TimeoutResetSuccess(p) /\ ret[p].ok

\* the failed connect attempts whose handling is complete: the latest of the
\* sequence in progress and the last of each sequence that has returned
Attempts ==
    {a \in {conn.att} \cup {ret[p].att : p \in Procs} : a.out # "none"}

C10_CountersZeroAfterConnect ==
    \A p \in Procs :
        (ConnectReturned(p) /\ ret[p].ok /\ ret[p].lastOut = "ok")
            => ret[p].endAttempts = 0 /\ ret[p].usbCount = 0

\* C11: the restart counter never exceeds max_restart_attempts, the USB reset
\* counter never exceeds max_usb_reset_attempts, and the reset helper runs at
\* most max_usb_reset_attempts times between two successful connects
C11_CountersBounded ==
    /\ restart_attempts \in 0..max_restart_attempts
    /\ usb_reset_count \in 0..max_usb_reset_attempts
    /\ helperRuns <= max_usb_reset_attempts

\* both counters at their maximum, the helper having run that many times
C11_Witness ==
    /\ restart_attempts = max_restart_attempts
    /\ usb_reset_count = max_usb_reset_attempts
    /\ helperRuns = max_usb_reset_attempts

\* C12: the reset helper runs only when auto_usb_reset is enabled and the
\* reset budget was not used up when it was asked for, after a timeout as
\* well as in a restart with force_usb_reset
C12_ResetOnlyWhenAllowed ==
    \A p \in Procs :
        Running(p, "usb_reset")
            => /\ pc[p] \in {"c_reset", "r_reset"}
               /\ auto_usb_reset
               /\ conn.budget < max_usb_reset_attempts

\* a forced reset is running on the last unit of the budget
C12_Witness ==
    \E p \in Procs :
        /\ Running(p, "usb_reset")
        /\ pc[p] = "r_reset"
        /\ conn.budget = max_usb_reset_attempts - 1

\* C13: after every run of the reset helper, whatever it returned, at least
\* one more connect attempt is made before the connect sequence ends
C13_AttemptAfterEveryReset ==
    \A p \in Procs : ConnectReturned(p) => ~ret[p].resetPending

\* the coroutines whose camera.capture_photo call is running in a pool thread
Capturing == {p \in Procs : Running(p, "capture_photo")}

\* C14: at most one photo capture is in flight at any moment; a capture asked
\* for while another is in progress is rejected, not executed
C14_OneCaptureInFlight == Cardinality(Capturing) <= 1

\* C16: when camera.capture_photo completes, with the image or with an
\* exception it has caught, the camera state is IDLE again
C16_CaptureEndsIdle ==
    [][\A p \in Procs :
          (Running(p, "capture_photo") /\ call'[p].phase = "done")
              => cams'[call[p].cam].state = "idle"]_vars

\* C17: a camera object whose state is ERROR leaves it only in a connect,
\* restart or shutdown sequence (its disconnect or initialize call ends, or the
\* object is dropped and a new one made); no get_preview_frame, stop_preview
\* or capture_photo call moves it from ERROR to another state
C17_ErrorLeftOnlyByRestart ==
    [][\A c \in CamIds :
          (cams[c].state = "error" /\ cams'[c].state # "error")
              => \/ \E p \in Procs :
                        /\ call[p].cam = c
                        /\ Running(p, "disconnect") \/ Running(p, "initialize")
                        /\ call'[p].phase = "done"
                 \/ ~Referenced(c, camera', call')
                 \/ \E p \in Procs :
                        /\ call[p].kind = "none"
                        /\ call'[p].kind = "initialize" /\ call'[p].cam = c]_vars

\* C19: reset_usb_device never raises; it returns True only after it wrote
\* "0" and then "1" to authorized and the lookup after the settle wait found
\* the camera; when the camera is not found, the authorized file is missing,
\* permission is denied or a write fails with an I/O error, it returns False
C19_ResetReturnsBool ==
    /\ uret \in {"none", "true", "false"}
    /\ uret = "true" => uwrites = <<"0", "1">> /\ ufound
    /\ uerrs # {} => uret = "false"

\* a reset that succeeded, and every way of failing
C19_Witness == upc = "returned" /\ uret = "true"

\* the loop tasks whose get_preview_frame request is with the camera manager
Fetching == {t \in LoopTasks : hpc[t] = "fetch"}

\* C20: preview_stream_loop issues a frame request only when at least one
\* websocket is in self.connections; while the set is empty it issues none
C20_NoFetchWithoutSubscribers ==
    [][\A t \in LoopTasks :
          (t \notin Fetching /\ t \in Fetching') => connections # {}]_vars

\* a loop task idles on an empty connection set after it has served frames
C20_Witness ==
    \E t \in LoopTasks :
        /\ hpc[t] = "idle_sleep"
        /\ connections = {}
        /\ is_streaming
        /\ alive # Clients /\ \A p \in Clients : hpc[p] # "none"

\* C18: when a stop_preview message has been processed (stop_preview_stream is
\* over and "preview_stopped" is sent) the camera state is not PREVIEWING
C18_StopLeavesPreviewing ==
    [][\A p \in Clients :
          (hpc[p] = "stop" /\ hpc'[p] = "recv" /\ camera' # 0)
              => cams'[camera'].state # "previewing"]_vars

\* the clients whose capture_photo message is being handled, from its
\* arrival until camera_manager.capture_photo is back
InCapture == {p \in Clients : hpc[p] \in {"cap_stop", "capture"}}

\* C15: while camera.capture_photo runs for a capture request the camera state
\* is CAPTURING, and from the arrival of the request until the capture is
\* over no get_preview_frame call is running on the camera
C15_NoPreviewDuringCapture ==
    /\ \A p \in InCapture :
           Running(p, "capture_photo") => cams[call[p].cam].state = "capturing"
    /\ InCapture # {} => \A q \in Procs : ~Running(q, "get_preview_frame")

\* C21: with the stream started, the tick of preview_stream_loop that follows
\* the attachment of a websocket to the empty self.connections begins a frame
\* request: a loop task resumed while self.connections is not empty calls
\* camera_manager.get_preview_frame (which gives the call to the camera, or
\* refuses it at once when the camera is not ready), it does not idle again
C21_AttachResumesFetch ==
    [][\A t \in LoopTasks :
          (LoopRuns(t) /\ is_streaming /\ connections # {} /\ hpc'[t] # hpc[t])
              => hpc'[t] \in {"fetch", "err_sleep"}]_vars

\* a loop task that idled on the empty set is due for its next tick, and a
\* websocket has been attached since
C21_Witness ==
    \E t \in LoopTasks :
        /\ hpc[t] = "idle_sleep"
        /\ t \notin cancel_req
        /\ is_streaming
        /\ \E p \in Clients : connections = {p} /\ p \in alive /\ hpc[p] = "hello"

\* the websockets whose send_text has raised in the iteration loop task t is
\* in, the one it is waiting for included
FailedSends(t) ==
    fanout[t].failed \cup
        (IF fanout[t].cur \in alive THEN {} ELSE {fanout[t].cur})

\* C22: when the fan-out of a frame is over (and the task was not cancelled
\* in it), every websocket whose send_text raised is out of self.connections
\* and every other websocket of the iteration has been sent the frame
C22_FailedSendRemoved ==
    [][\A t \in LoopTasks :
          (hpc[t] = "send" /\ hpc'[t] # "send" /\ t \notin cancel_req)
              => /\ connections' \cap FailedSends(t) = {}
                 /\ fanout[t].todo = {}]_vars

\* C23: the handling of a capture_photo message that found the stream running
\* ends with the stream running again, when its websocket is still attached
\* and no other websocket was ever there to ask for a stop
C23_StreamSurvivesCapture ==
    [][\A p \in Clients :
          (/\ p \in was_streaming
           /\ hpc[p] # "recv" /\ hpc'[p] = "recv"
           /\ p \in connections'
           /\ \A q \in Clients \ {p} : hpc[q] = "none")
              => is_streaming' /\ preview_task' \in LoopTasks]_vars

\* C27: after the peer of a websocket has closed it, handle_connection ends
\* and the websocket is out of self.connections
C27_ClosedHandlerEnds ==
    \A p \in Clients :
        (p \notin alive /\ hpc[p] # "none")
            ~> (hpc[p] = "none" /\ p \notin connections)

\* the _auto_recover tasks that have started and are not over
Recovering == {p \in Procs : req[p].auto}

\* C26: at most one _auto_recover task exists at any time, created and not
\* yet started or running
C26_OneRecoveryTask == recoverPending + Cardinality(Recovering) <= 1

(***************************************************************************)
(* GPhoto2Backend: claims                                                  *)
(***************************************************************************)
\* this step is a call of backend method op
Called(op) == bres'.seq # bres.seq /\ bres'.op = op

\* C28: is_connected() is true exactly when the latest initialize() or
\* cleanup() that did something was an initialize() that succeeded (false on
\* a fresh backend, after cleanup() and after an initialize() that failed);
\* initialize() on an initialized backend changes nothing and does not call
\* the device
C28_ConnectedIffInitialized ==
    /\ [](IsConnected(backend) <=> lifecycle = "initialize_ok")
    /\ [][(Called("initialize") /\ backend.initialized)
              => (bres'.res = "noop" /\ ~bres'.dev /\ backend' = backend
                  /\ lifecycle' = lifecycle)]_vars

\* initialize() was called on a connected backend
C28_Witness ==
    /\ bres.op = "initialize" /\ bres.res = "noop"
    /\ IsConnected(backend)

\* C29: capture_photo on a backend that is not connected returns the
\* "Camera not connected" failure, does not raise, does not call the device
\* and leaves the live-view flag and the counters as they were
C29_CaptureNotConnected ==
    [][(Called("capture_photo") /\ ~IsConnected(backend))
           => (bres'.res = "not_connected" /\ ~bres'.dev
               /\ backend' = backend)]_vars

\* capture_photo was refused after a connection that was cleaned up
C29_Witness ==
    /\ bres.op = "capture_photo" /\ bres.res = "not_connected"
    /\ lifecycle = "cleanup"

\* C30: capture_photo leaves the live view as it found it: active when it
\* was active, inactive when it was inactive, whatever the capture did
C30_LiveviewRestored ==
    [][(Called("capture_photo") /\ IsConnected(backend))
           => backend'.liveview_active = backend.liveview_active]_vars

\* C25: no initialize() and no capture_photo() fails because the camera
\* refused a setting (capturetarget, iso, shutterspeed, viewfinder)
C25_ConfigFailureAbsorbed ==
    ~(bres.op \in {"initialize", "capture_photo"} /\ bres.cfg)

(***************************************************************************)
(* The frame fetch: claims                                                 *)
(***************************************************************************)
\* C24: a frame fetch requested before 1 / frame_rate_cap has passed since
\* the last frame returns None and puts nothing on the worker queue, through
\* CameraWorker.get_liveview_frame and CameraWorkerAdapter.get_liveview_frame
C24_RateLimitBeforeAdmission ==
    [][(fetch'.seq # fetch.seq /\ RateLimited(backend))
           => (fetch'.res = "None" /\ queue' = queue
               /\ submitted' = submitted)]_vars

\* C39: a frame error stops live view only after _max_consecutive_errors
\* captures in a row gave no frame since live view was last started, and
\* _consecutive_errors never exceeds _max_consecutive_errors
C39_StopAfterTenInARow ==
    /\ [][(Called("get_liveview_frame") /\ backend.liveview_active
              /\ ~backend'.liveview_active)
             => bres'.fails >= max_consecutive_errors]_vars
    /\ [](backend.consecutive_errors <= max_consecutive_errors)

(***************************************************************************)
(* UsbResetHelper: the reauthorize write                                   *)
(***************************************************************************)
\* C40: when reset_usb_device returns or raises after it wrote "0" to the
\* authorized attribute, it has written "1" to it as well
C40_ReauthorizedOnReturn ==
    (upc = "returned" /\ \E i \in DOMAIN uwrites : uwrites[i] = "0")
        => \E j \in DOMAIN uwrites : uwrites[j] = "1"

(***************************************************************************)
(* CameraManager: the connect sequence ends                                *)
(***************************************************************************)
\* p is inside _try_connect_camera
Connecting(p) == pc[p] \in {"c_init", "c_reset", "c_settle", "c_delay"}

\* C31: a connect sequence makes at most max_restart_attempts +
\* max_usb_reset_attempts connect attempts and at most
\* max_usb_reset_attempts bus resets, and every connect sequence ends: the
\* lifecycle call it belongs to returns or raises
C31_ConnectSequenceEnds ==
    /\ [](conn.attempts <= max_restart_attempts + max_usb_reset_attempts)
    /\ [](conn.resets <= max_usb_reset_attempts)
    /\ Connecting(Owner) ~> pc[Owner] = "ret"

\* a connect sequence has ended in failure after the most attempts and the
\* most bus resets it can make
C31_Witness ==
    \E p \in Callers :
        /\ ConnectReturned(p) /\ ~ret[p].ok
        /\ ret[p].attempts = max_restart_attempts + max_usb_reset_attempts
        /\ ret[p].resets = max_usb_reset_attempts

\* C33: _is_initialized is true only if the latest connect sequence ended
\* with a connect attempt that succeeded (between two lifecycle calls
\* _is_initialized does not change, so it is looked at when a call that went
\* through a connect sequence returns)
C33_InitializedMeansConnected ==
    \A p \in Procs :
        (ConnectReturned(p) /\ is_initialized) => ret[p].lastOut = "ok"

\* C36: the end of a capture that was started on an earlier camera object
\* leaves the manager ready: when the manager is ready with the camera a
\* restart connected, and the capture_photo() call that ends belongs to the
\* camera object held before, is_camera_ready() is true after it as well
C36_StaleCaptureKeepsReady ==
    [][\A p \in Procs :
          (/\ pc[p] = "cap_wait" /\ Finished(p, "capture_photo")
           /\ call[p].cam # camera
           /\ pc'[p] = "idle"
           /\ IsCameraReady)
              => IsCameraReady']_vars

(***************************************************************************)
(* CameraWebSocketHandler: the loop tasks                                  *)
(***************************************************************************)
\* the preview_stream_loop tasks that exist and have not been cancelled
AliveLoops == {t \in LoopTasks : hpc[t] # "none" /\ t \notin cancel_req}

\* C37: at most one preview_stream_loop task is alive, and self.preview_task
\* is that task
C37_OneLoopTask ==
    /\ Cardinality(AliveLoops) <= 1
    /\ \A t \in AliveLoops : preview_task = t

(***************************************************************************)
(* CameraWorker: start() and stop()                                        *)
(***************************************************************************)
\* the worker threads that take operations off the queue: in queue.get, in
\* an operation, or about to pass the "while self._running" test
Consumers ==
    {t \in Threads : \/ wpc[t] \in {"blocked", "exec", "sleep"}
                     \/ wpc[t] = "get" /\ running}

\* C35: at most one worker thread consumes the queue at any time
C35_OneConsumer == Cardinality(Consumers) <= 1

\* C34: every operation submitted to the worker eventually has its future
\* resolved, with a result or an exception
C34_FutureResolved ==
    \A o \in OpIds : future[o] = "pending" ~> future[o] \in {"ok", "exc"}

(***************************************************************************)
(* The worker-based service: the stream and a capture                      *)
(***************************************************************************)
\* C38: liveview_stream does not report "Live view not active" and end
\* while capture_photo is executing with the live view it has paused
C38_StreamSurvivesCapture ==
    [][(stream.pc = "check" /\ stream'.pc = "not_active")
           => ~(CaptureRunning /\ bres.was)]_vars

(***************************************************************************)
(* CameraWorker: the backoff delays                                        *)
(***************************************************************************)
\* C32: the delay before the first retry of an operation is 0.1 s, each
\* later delay is twice the one before it unless that exceeds 1.0 s, which
\* it then is; no delay exceeds 1.0 s; one delay is computed per retry; and
\* an operation that succeeded on its third attempt has been slept for at
\* least 0.1 s + 0.2 s
C32_BackoffDoublesToCap ==
    /\ BackoffDelay(1) = 100
    /\ \A k \in 1..MaxRetryNo :
          /\ BackoffDelay(k) <= 1000
          /\ BackoffDelay(k + 1) = IF 2 * BackoffDelay(k) <= 1000
                                   THEN 2 * BackoffDelay(k) ELSE 1000
    /\ \A o \in OpIds :
          /\ Len(delay[o]) = retry_count[o]
          /\ \A k \in DOMAIN delay[o] :
                /\ k = 1 => delay[o][k] = 100
                /\ k > 1 => delay[o][k] = IF 2 * delay[o][k - 1] <= 1000
                                          THEN 2 * delay[o][k - 1] ELSE 1000
                /\ delay[o][k] <= 1000
          /\ (future[o] = "ok" /\ execs[o] = 3) => slept[o] >= 100 + 200

\* two transient failures, two sleeps, then success on the third attempt
C32_Witness ==
    \E o \in OpIds :
        /\ future[o] = "ok" /\ execs[o] = 3 /\ fails[o] = 2
        /\ delay[o] = <<100, 200>> /\ slept[o] = 300

====
